---- MODULE Spec2Model ----
(***************************************************************************)
(* A model of github.com/danp/mapmyride: the client's GetWorkouts (month   *)
(* buckets, listing filters, two-task enrichment, gain scraping) and the   *)
(* sync command's store (DB.sync, DB.removeExtra).                         *)
(*                                                                         *)
(* Time.  A time.Time is a record [inst, off]: the instant, in ticks, and  *)
(* the offset of its location from UTC, in ticks.  Before/After compare    *)
(* instants; Year/Month/Day read the wall clock of the value's location,   *)
(* as Go's do.  A day has TicksPerDay ticks and a month DaysPerMonth days  *)
(* (the code never depends on the length of a month: AddDate(0, 1, 0) is   *)
(* only applied to the first day of a month).                              *)
(*                                                                         *)
(* Text.  A Go string that the code takes apart (the gain cell, view_url)  *)
(* is a sequence of one-character strings; a string that is only compared  *)
(* as a whole (the label of the gain row, an error) is a TLA+ string.      *)
(***************************************************************************)
EXTENDS Integers, Sequences, FiniteSets, TLC

VARIABLES
    begin, end,     \* the arguments of GetWorkouts
    remote,         \* the provider's workouts: id -> its listing entry and detail
    pc,             \* where GetWorkouts is
    ms, mi,         \* months(begin, end) and the index of the current bucket
    mwks,           \* the rest of the current bucket's summaries (range mwks)
    wk,             \* the workout being filled (the loop's copy, wk := wk)
    task,           \* the two goroutines of fillWorkout: task -> its state and error
    gainPage,       \* the page the gain fetch received (doc)
    gerr,           \* errgroup: the first error recorded (g.err)
    cancelled,      \* errgroup: the shared context is cancelled
    errLog,         \* history: the errors of this fillWorkout's tasks, in order of return
    fetches,        \* history: the ids for which an enrichment request was issued
    workouts,       \* GetWorkouts' accumulator
    ret,            \* what GetWorkouts returned: [workouts, err]
    db,             \* the store: the parent table and the four child tables
    dbRet,          \* the last store call and what it returned
    dbCall,         \* history: the arguments of the last store call
    run,            \* the sync command: where main is, its arguments and its fetch
    fin, fout       \* input and output of a function applied on its own

vars == <<begin, end, remote, pc, ms, mi, mwks, wk, task, gainPage, gerr, cancelled,
          errLog, fetches, workouts, ret, db, dbRet, dbCall, run, fin, fout>>

clientVars == <<begin, end, remote, pc, ms, mi, mwks, wk, task, gainPage, gerr,
                cancelled, errLog, fetches, workouts, ret>>

dbVars == <<db, dbRet, dbCall, run>>

fnVars == <<fin, fout>>

-----------------------------------------------------------------------------
(* Bounds *)

TicksPerDay == 2

DaysPerMonth == 2

\* GetWorkouts' arguments and the workouts' instants: this many ticks before
\* and after the first instant of year 1.
TicksBefore == 4

TicksAfter == 0

\* The provider's workouts are 1 .. NumWorkouts.
NumWorkouts == 2

\* months on its own: begin and end within 0 .. MaxMonthsTick.
MaxMonthsTick == 59

\* The store on its own: the samples of each series of a workout.
MaxSamples == 1

\* The sync command is run at most this many times, one run after the other.
MaxRuns == 2

\* The longest gain cell text.
MaxTextLen == 4

\* Location offsets from UTC, in ticks (half a day either way).
Offsets == {-1, 0, 1}

-----------------------------------------------------------------------------
(* time.Time *)

Time(i, o) == [inst |-> i, off |-> o]

\* The day number and the month number of a time's wall clock.
WallDay(t) == (t.inst + t.off) \div TicksPerDay

WallMonth(t) == WallDay(t) \div DaysPerMonth

Year(t) == WallMonth(t) \div 12

Month(t) == (WallMonth(t) % 12) + 1

Day(t) == (WallDay(t) % DaysPerMonth) + 1

\* time.Date(y, m, d, 0, 0, 0, 0, time.UTC); a month outside 1..12 is normalized.
Date(y, m, d) ==
    Time((((y * 12 + (m - 1)) * DaysPerMonth) + (d - 1)) * TicksPerDay, 0)

Before(a, b) == a.inst < b.inst

After(a, b) == a.inst > b.inst

\* t.AddDate(years, mths, days), for a t at midnight UTC.
AddDate(t, years, mths, days) == Date(Year(t) + years, Month(t) + mths, Day(t) + days)

norm(t) == Date(Year(t), Month(t), 1)

toDate(t) == Date(Year(t), Month(t), Day(t))

RECURSIVE monthsLoop(_, _, _)
monthsLoop(cur, endN, out) ==
    IF Before(cur, endN)
    THEN LET nxt == AddDate(cur, 0, 1, 0) IN monthsLoop(nxt, endN, Append(out, nxt))
    ELSE out

monthsExclusive(b, e) ==
    LET out == monthsLoop(norm(b), norm(e), <<norm(b)>>)
    IN  IF Len(out) > 1 THEN SubSeq(out, 1, Len(out) - 1) ELSE out

months(b, e) == monthsLoop(norm(b), norm(e), <<norm(b)>>)

-----------------------------------------------------------------------------
(* strings *)

Digits == <<"0", "1", "2", "3", "4", "5", "6", "7", "8", "9">>

IsDigit(c) == \E i \in 1..10 : Digits[i] = c

DigitVal(c) == (CHOOSE i \in 1..10 : Digits[i] = c) - 1

IsSpace(c) == c \in {" ", "\n", "\t"}

RECURSIVE TrimLeft(_)
TrimLeft(s) == IF s # <<>> /\ IsSpace(Head(s)) THEN TrimLeft(Tail(s)) ELSE s

RECURSIVE TrimRight(_)
TrimRight(s) ==
    IF s # <<>> /\ IsSpace(s[Len(s)]) THEN TrimRight(SubSeq(s, 1, Len(s) - 1)) ELSE s

\* strings.TrimSpace
TrimSpace(s) == TrimRight(TrimLeft(s))

RECURSIVE atoiDigits(_, _)
atoiDigits(s, acc) ==
    IF s = <<>> THEN [ok |-> TRUE, val |-> acc]
    ELSE IF IsDigit(Head(s)) THEN atoiDigits(Tail(s), acc * 10 + DigitVal(Head(s)))
    ELSE [ok |-> FALSE, val |-> 0]

\* strconv.Atoi: an optional sign, then one or more digits.
Atoi(s) ==
    LET signed == s # <<>> /\ Head(s) \in {"+", "-"}
        body == IF signed THEN Tail(s) ELSE s
        r == atoiDigits(body, 0)
    IN  IF body = <<>> \/ ~r.ok THEN [ok |-> FALSE, val |-> 0]
        ELSE [ok |-> TRUE, val |-> IF signed /\ Head(s) = "-" THEN 0 - r.val ELSE r.val]

-----------------------------------------------------------------------------
(* Workout and the gain page *)

NoTime == Time(0, 0)

\* The zero Workout. Distance is in meters, Duration and Elapsed in milliseconds.
ZeroWorkout ==
    [ID |-> 0, Name |-> "", Kind |-> "", Kcal |-> 0, Distance |-> 0, Speed |-> 0,
     Duration |-> 0, StepCount |-> 0, Gain |-> 0,
     StartedAt |-> NoTime, CreatedAt |-> NoTime, UpdatedAt |-> NoTime,
     Distances |-> <<>>, Positions |-> <<>>, Speeds |-> <<>>, Steps |-> <<>>]

\* The Workout getMonthWorkoutsForRange builds from the listing entry rw; the
\* steps and the time are kept only when they are integers.
Workout(id, rw) ==
    LET steps == Atoi(rw.Steps)
        time == Atoi(rw.Time)
    IN  [ZeroWorkout EXCEPT !.ID = id, !.Name = rw.Name, !.Kind = rw.ActivityShortName,
                            !.Kcal = rw.Energy, !.Distance = rw.Distance * 1000,
                            !.Speed = rw.Speed,
                            !.StepCount = IF steps.ok THEN steps.val ELSE 0,
                            !.Duration = IF time.ok THEN time.val * 1000 ELSE 0]

\* The detail page as the gain fetch reads it: the status, whether the row
\* #workout_elevation_data > tbody:nth-child(2) > tr:nth-child(1) is there,
\* the text of its first th and the text of its first td > span.
Page(status, anchor, label, cell) ==
    [status |-> status, anchor |-> anchor, label |-> label, cell |-> cell]

NoPage == Page(0, FALSE, "", <<>>)

fillGainDataNoTrim(page, w) ==
    IF page.status # 200 THEN [err |-> "status", wk |-> w]
    ELSE IF ~page.anchor THEN [err |-> "nil", wk |-> w]
    ELSE IF page.label # "Gain" THEN [err |-> "gain", wk |-> w]
    ELSE LET gains == page.cell
             gain == Atoi(gains)
         IN  IF gains = <<>> \/ gains = <<"-", "-">> THEN [err |-> "nil", wk |-> w]
             ELSE IF ~gain.ok THEN [err |-> "atoi", wk |-> w]
             ELSE [err |-> "nil", wk |-> [w EXCEPT !.Gain = gain.val]]

fillGainDataLenient(page, w) ==
    IF page.status # 200 THEN [err |-> "status", wk |-> w]
    ELSE IF ~page.anchor THEN [err |-> "nil", wk |-> w]
    ELSE LET gains == TrimSpace(page.cell)
             gain == Atoi(gains)
         IN  IF gains = <<>> \/ gains = <<"-", "-">> THEN [err |-> "nil", wk |-> w]
             ELSE IF ~gain.ok THEN [err |-> "nil", wk |-> w]
             ELSE [err |-> "nil", wk |-> [w EXCEPT !.Gain = gain.val]]

\* fillGainData once the response is in: the error it returns ("nil" for none)
\* and the workout it leaves.
fillGainData(page, w) ==
    IF page.status # 200 THEN [err |-> "status", wk |-> w]
    ELSE IF ~page.anchor THEN [err |-> "nil", wk |-> w]
    ELSE IF page.label # "Gain" THEN [err |-> "gain", wk |-> w]
    ELSE LET gains == TrimSpace(page.cell)
             gain == Atoi(gains)
         IN  IF gains = <<>> \/ gains = <<"-", "-">> THEN [err |-> "nil", wk |-> w]
             ELSE IF ~gain.ok THEN [err |-> "atoi", wk |-> w]
             ELSE [err |-> "nil", wk |-> [w EXCEPT !.Gain = gain.val]]

-----------------------------------------------------------------------------
(* The values the variables of the other parts keep while one part runs *)

Idle ==
    /\ begin = NoTime /\ end = NoTime
    /\ pc = "idle"
    /\ ms = <<>> /\ mi = 0
    /\ mwks = <<>>
    /\ wk = ZeroWorkout
    /\ task = [t \in {"main", "gain"} |-> [st |-> "idle", err |-> "nil"]]
    /\ gainPage = NoPage
    /\ gerr = "nil"
    /\ cancelled = FALSE
    /\ errLog = <<>>
    /\ fetches = <<>>
    /\ workouts = <<>>
    /\ ret = [returned |-> FALSE, workouts |-> <<>>, err |-> "nil"]

IdleClient == remote = <<>> /\ Idle

EmptyDB ==
    [workouts |-> {}, workout_distances |-> <<>>, workout_positions |-> <<>>,
     workout_speeds |-> <<>>, workout_steps |-> <<>>]

\* No store call yet.
NoCall ==
    [op |-> "none", user |-> "", w |-> ZeroWorkout, begin |-> NoTime, end |-> NoTime,
     ids |-> {}, had |-> 0, ra |-> 0]

\* The sync command has not started.
NoRun ==
    [pc |-> "none", n |-> 0, user |-> "", begin |-> NoTime, end |-> NoTime,
     fetched |-> <<>>, err |-> "nil", k |-> 0, failed |-> 0, db0 |-> EmptyDB]

IdleDB ==
    /\ db = EmptyDB
    /\ dbRet = [op |-> "none", err |-> "nil", id |-> 0, stage |-> "none"]
    /\ dbCall = NoCall
    /\ run = NoRun

IdleFn ==
    /\ fin = [none |-> TRUE]
    /\ fout = [done |-> FALSE]

-----------------------------------------------------------------------------
(* months on its own *)

MonthsTimes == {Time(i, o) : i \in 0..MaxMonthsTick, o \in Offsets}

InitMonths ==
    /\ fin \in [b : MonthsTimes, e : MonthsTimes]
    /\ fout = [done |-> FALSE, out |-> <<>>]
    /\ IdleClient /\ IdleDB

ApplyMonths ==
    /\ ~fout.done
    /\ fout' = [done |-> TRUE, out |-> months(fin.b, fin.e)]
    /\ UNCHANGED <<fin, clientVars, dbVars>>

NextMonths == ApplyMonths

SpecMonths == InitMonths /\ [][NextMonths]_vars

\* The number of a time's calendar month, counted from year 0, in its location.
MonthIndex(t) == 12 * Year(t) + Month(t)

\* out is the months from b's month through e's month inclusive, each once,
\* consecutive, each the first day of its month at midnight UTC.
IsMonthRange(b, e, out) ==
    /\ Len(out) = MonthIndex(e) - MonthIndex(b) + 1
    /\ \A i \in 1..Len(out) :
          /\ MonthIndex(out[i]) = MonthIndex(b) + i - 1
          /\ Day(out[i]) = 1
          /\ out[i].off = 0
          /\ out[i].inst % TicksPerDay = 0

\* C6 as stated: for all begin <= end, months(begin, end) is exactly the months
\* from begin's month through end's month, of length
\* (12*year(end)+month(end)) - (12*year(begin)+month(begin)) + 1.
C6_AsStated ==
    (fout.done /\ fin.b.inst <= fin.e.inst) => IsMonthRange(fin.b, fin.e, fout.out)

\* C6 amended: whenever begin's calendar month (in begin's location) is not
\* after end's calendar month (in end's location), months(begin, end) is exactly
\* the months from begin's month through end's month inclusive, each once, in
\* consecutive order, each the first of its month, of the stated length; it is
\* a single month when both fall in the same month.
C6_MonthsRange ==
    (fout.done /\ MonthIndex(fin.b) <= MonthIndex(fin.e)) =>
        /\ IsMonthRange(fin.b, fin.e, fout.out)
        /\ (MonthIndex(fin.b) = MonthIndex(fin.e) => Len(fout.out) = 1)

\* months has produced six or more buckets across a change of year.
C6_Witness ==
    /\ fout.done
    /\ Year(fin.b) < Year(fin.e)
    /\ Len(fout.out) >= 6
    /\ Month(fin.b) > 1
    /\ Len(fout.out) >= 6

-----------------------------------------------------------------------------
(* fillGainData on its own *)

Alphabet == {" ", "-", "+", "0", "1", "x"}

Texts == UNION {[1..k -> Alphabet] : k \in 0..MaxTextLen}

GainPages ==
    {Page(st, a, l, c) : st \in {200, 500}, a \in BOOLEAN, l \in {"Gain", "Start"}, c \in Texts}

InitGain ==
    /\ fin \in GainPages
    /\ fout = [done |-> FALSE, err |-> "nil", wk |-> [ZeroWorkout EXCEPT !.ID = 1]]
    /\ IdleClient /\ IdleDB

ApplyGain ==
    /\ ~fout.done
    /\ LET r == fillGainData(fin, fout.wk)
       IN  fout' = [done |-> TRUE, err |-> r.err, wk |-> r.wk]
    /\ UNCHANGED <<fin, clientVars, dbVars>>

NextGain == ApplyGain

SpecGain == InitGain /\ [][NextGain]_vars

\* s without the white space at its two ends, said without recursion.
Trimmed(s) ==
    LET keep == {i \in 1..Len(s) : ~IsSpace(s[i])}
    IN  IF keep = {} THEN <<>>
        ELSE LET lo == CHOOSE i \in keep : \A j \in keep : i <= j
                 hi == CHOOSE i \in keep : \A j \in keep : j <= i
             IN  SubSeq(s, lo, hi)

\* s is a decimal integer: an optional sign, then digits only, at least one.
IsDecimal(s) ==
    LET from == IF s # <<>> /\ s[1] \in {"+", "-"} THEN 2 ELSE 1
    IN  /\ Len(s) >= from
        /\ \A i \in from..Len(s) : IsDigit(s[i])

RECURSIVE Pow10(_)
Pow10(n) == IF n = 0 THEN 1 ELSE 10 * Pow10(n - 1)

RECURSIVE SumTo(_, _, _)
SumTo(s, from, i) ==
    IF i < from THEN 0 ELSE DigitVal(s[i]) * Pow10(Len(s) - i) + SumTo(s, from, i - 1)

\* The integer a decimal s denotes.
DecimalValue(s) ==
    LET from == IF s[1] \in {"+", "-"} THEN 2 ELSE 1
        mag == SumTo(s, from, Len(s))
    IN  IF s[1] = "-" THEN 0 - mag ELSE mag

GainOk == fout.done /\ fin.status = 200

\* C7: gain extraction yields a value without error when the anchor is absent
\* (gain stays 0), when the label is "Gain" and the trimmed cell text is empty
\* or "--" (gain 0), and when the trimmed cell text is a decimal integer n
\* (gain n).
C7_GainValues ==
    GainOk =>
        /\ ~fin.anchor => (fout.err = "nil" /\ fout.wk.Gain = 0)
        /\ (fin.anchor /\ fin.label = "Gain" /\ Trimmed(fin.cell) \in {<<>>, <<"-", "-">>})
              => (fout.err = "nil" /\ fout.wk.Gain = 0)
        /\ (fin.anchor /\ fin.label = "Gain" /\ IsDecimal(Trimmed(fin.cell)))
              => (fout.err = "nil" /\ fout.wk.Gain = DecimalValue(Trimmed(fin.cell)))

\* The gain of a padded cell " 10 " has been read as 10.
C7_Witness ==
    /\ GainOk
    /\ fin.anchor /\ fin.label = "Gain"
    /\ fin.cell = <<" ", "1", "0", " ">>
    /\ fout.err = "nil"
    /\ fout.wk.Gain = 10

-----------------------------------------------------------------------------
(* The provider *)

IDs == 1..NumWorkouts

\* The first instant of year 1: the window of instants lies around it, so that
\* it holds a change of month and a change of year.
YearStart == 12 * DaysPerMonth * TicksPerDay

RunTicks == (YearStart - TicksBefore)..(YearStart + TicksAfter)

\* A provider workout: start_datetime and created_datetime carry the offset of
\* the zone the workout was recorded in, and the dashboard lists the workout
\* under the calendar date of its start in that zone (as the test server's
\* dashboardHandler does with startedAt.Format). ts is its time_series map
\* and page its detail page.
RemoteWorkout(i, o, lag, ts, page) ==
    [Name |-> IF ts = <<>> THEN "walk to work" ELSE "ride home",
     Kind |-> IF ts = <<>> THEN "walk" ELSE "ride",
     StartedAt |-> Time(i, o), CreatedAt |-> Time(i + lag, o), UpdatedAt |-> Time(i, o),
     Timeseries |-> ts, Page |-> page]

\* strconv.Itoa for the identifiers of the model.
Itoa(n) == IF n < 10 THEN <<Digits[n + 1]>> ELSE <<Digits[(n \div 10) + 1], Digits[(n % 10) + 1]>>

\* The dashboard entry of provider workout id: date is "MM/DD/YYYY" as the
\* triple <<MM, DD, YYYY>>, view_url is "/workout/<id>", distance is in
\* kilometers, steps and time are a number or the empty string "".
Entry(id, r) ==
    [Name |-> r.Name,
     Date |-> <<Month(r.StartedAt), Day(r.StartedAt), Year(r.StartedAt)>>,
     ActivityShortName |-> r.Kind,
     Distance |-> 5,
     Energy |-> 100,
     Speed |-> 3,
     Steps |-> IF r.Kind = "walk" THEN <<"7">> ELSE <<"\"", "\"">>,
     Time |-> IF r.Kind = "walk" THEN <<"\"", "\"">> ELSE <<"6", "0">>,
     ViewURL |-> <<"/", "w", "o", "r", "k", "o", "u", "t", "/">> \o Itoa(id)]

\* What can be wrong with one entry of a dashboard response.
Corrupt(e, how) ==
    CASE how = "date" -> [e EXCEPT !.Date = <<0, 0, 0>>]
      [] how = "url_nonint" -> [e EXCEPT !.ViewURL = <<"/", "w", "/", "x">>]
      [] how = "url_short" -> [e EXCEPT !.ViewURL = <<"w", "/", "1">>]
      [] OTHER -> e

Perms(S) == {p \in [1..Cardinality(S) -> S] : \A i, j \in 1..Cardinality(S) : i # j => p[i] # p[j]}

\* The dashboard responses for (year, month): the workouts listed under that
\* month and, when spill, those of the two adjacent months too, in any order.
Dashboards(r, year, month, spill) ==
    LET at(id) == 12 * Year(r[id].StartedAt) + Month(r[id].StartedAt)
        want == 12 * year + month
        ids == {id \in IDs : IF spill THEN at(id) \in (want - 1)..(want + 1) ELSE at(id) = want}
    IN  {[i \in 1..Cardinality(ids) |-> Entry(p[i], r[p[i]])] : p \in Perms(ids)}

-----------------------------------------------------------------------------
(* getMonthWorkoutsForRange *)

RECURSIVE splitFrom(_, _, _)
splitFrom(s, sep, cur) ==
    IF s = <<>> THEN <<cur>>
    ELSE IF Head(s) = sep THEN <<cur>> \o splitFrom(Tail(s), sep, <<>>)
    ELSE splitFrom(Tail(s), sep, Append(cur, Head(s)))

\* strings.Split(s, sep) for a one-character sep.
Split(s, sep) == splitFrom(s, sep, <<>>)

\* time.ParseInLocation("01/02/2006", d, time.UTC)
ParseDate(d) ==
    IF d[1] \in 1..12 /\ d[2] \in 1..DaysPerMonth
    THEN [ok |-> TRUE, t |-> Date(d[3], d[1], d[2])]
    ELSE [ok |-> FALSE, t |-> NoTime]

keepEntryNoMonth(dt, year, month, beginDate, endDate) ==
    ~(Before(dt, beginDate) \/ After(dt, endDate))

keepEntryNoRange(dt, year, month, beginDate, endDate) ==
    Year(dt) = year /\ Month(dt) = month

\* The two filters on a listing entry's date.
keepEntry(dt, year, month, beginDate, endDate) ==
    /\ Year(dt) = year /\ Month(dt) = month
    /\ ~(Before(dt, beginDate) \/ After(dt, endDate))

\* The loop over the entries of a dashboard response: the summaries built so
\* far, or the error or the panic that ends it.
RECURSIVE listLoop(_, _, _, _, _, _)
listLoop(es, year, month, beginDate, endDate, out) ==
    IF es = <<>> THEN [st |-> "ok", err |-> "nil", wks |-> out]
    ELSE LET rw == Head(es)
             dt == ParseDate(rw.Date)
             viewURLParts == Split(rw.ViewURL, "/")
             id == Atoi(viewURLParts[3])
         IN  IF ~dt.ok THEN [st |-> "err", err |-> "date", wks |-> <<>>]
             ELSE IF ~keepEntry(dt.t, year, month, beginDate, endDate)
                  THEN listLoop(Tail(es), year, month, beginDate, endDate, out)
             ELSE IF Len(viewURLParts) < 3 THEN [st |-> "panic", err |-> "nil", wks |-> <<>>]
             ELSE IF ~id.ok THEN [st |-> "err", err |-> "id", wks |-> <<>>]
             ELSE listLoop(Tail(es), year, month, beginDate, endDate,
                           Append(out, Workout(id.val, rw)))

getMonthWorkoutsForRange(es, year, month, beginDate, endDate) ==
    listLoop(es, year, month, beginDate, endDate, <<>>)

-----------------------------------------------------------------------------
(* fillMainData *)

\* JSON values of a time_series block.
Num(n) == [k |-> "num", v |-> n]

Str == [k |-> "str", v |-> 0]

Obj(el, lat, lng) == [k |-> "obj", v |-> 0, elevation |-> el, lat |-> lat, lng |-> lng]

\* The i-th element of a JSON array decoded into a Go array of two: a missing
\* element is the zero value.
elem(pair, i) == IF i <= Len(pair) THEN pair[i] ELSE [k |-> "zero", v |-> 0]

\* float64.  A natural number is held as its digits in base 2^10, least
\* significant first, so that the 53-bit significands and their 63-bit
\* products can be computed exactly; a float64 is [m, e], the value
\* m * 2^e with m of at most 53 bits (2^53 itself after a carry).
LimbBits == 10

\* The operations are functions, so that each argument is a value by the
\* time it is used.
Limbs == Seq(Nat)

\* A quotient with its remainder, and a shifted number with its sticky bit.
QuotRem == [q : Limbs, r : Nat]

Shifted == [q : Limbs, sticky : BOOLEAN]

Pow2[k \in Nat] == IF k = 0 THEN 1 ELSE 2 * Pow2[k - 1]

Base == Pow2[LimbBits]

limbsOf[n \in Nat] == IF n = 0 THEN <<>> ELSE <<n % Base>> \o limbsOf[n \div Base]

natOf[ls \in Limbs] == IF ls = <<>> THEN 0 ELSE Head(ls) + Base * natOf[Tail(ls)]

trim[ls \in Limbs] ==
    IF ls # <<>> /\ ls[Len(ls)] = 0 THEN trim[SubSeq(ls, 1, Len(ls) - 1)] ELSE ls

\* The number of binary digits of ls (trimmed).
bitLen[ls \in Limbs] ==
    IF ls = <<>> THEN 0
    ELSE LimbBits * (Len(ls) - 1)
           + (CHOOSE w \in 1..LimbBits : Pow2[w - 1] <= ls[Len(ls)] /\ ls[Len(ls)] < Pow2[w])

odd[ls \in Limbs] == ls # <<>> /\ ls[1] % 2 = 1

inc[ls \in Limbs] ==
    IF ls = <<>> THEN <<1>>
    ELSE IF Head(ls) < Base - 1 THEN <<Head(ls) + 1>> \o Tail(ls)
    ELSE <<0>> \o inc[Tail(ls)]

\* ls * c + carry, for a small c.
mulSmall[ls \in Limbs, c \in Nat, carry \in Nat] ==
    IF ls = <<>> THEN limbsOf[carry]
    ELSE <<(Head(ls) * c + carry) % Base>>
            \o mulSmall[Tail(ls), c, (Head(ls) * c + carry) \div Base]

\* Long division of ls by a small d, from digit i down: quotient and remainder.
divLoop[ls \in Limbs, d \in Nat, i \in Nat, rem \in Nat, q \in Limbs] ==
    IF i = 0 THEN [q |-> trim[q], r |-> rem]
    ELSE divLoop[ls, d, i - 1, (rem * Base + ls[i]) % d, <<(rem * Base + ls[i]) \div d>> \o q]

divSmall[ls \in Limbs, d \in Nat] == divLoop[ls, d, Len(ls), 0, <<>>]

\* ls * 2^k.
shl[ls \in Limbs, k \in Nat] ==
    [i \in 1..(k \div LimbBits) |-> 0] \o mulSmall[ls, Pow2[k % LimbBits], 0]

\* The quotient d of the digits of ls above the n lowest, with whether a digit
\* that is not 0 was dropped.
shrOut[ls \in Limbs, n \in Nat, d \in QuotRem] ==
    [q |-> d.q, sticky |-> d.r # 0 \/ \E i \in 1..n : i <= Len(ls) /\ ls[i] # 0]

\* ls \div 2^k, and whether a digit that is not 0 was dropped.
shr[ls \in Limbs, k \in Nat] ==
    shrOut[ls, k \div LimbBits,
           divSmall[SubSeq(ls, (k \div LimbBits) + 1, Len(ls)), Pow2[k % LimbBits]]]

SignificandBits == 53

\* The significand of a.q without its last digit, one more when the digits
\* dropped are more than half, or half with the last digit kept odd.
roundUp[a \in Shifted, high \in Limbs] ==
    IF odd[a.q] /\ (a.sticky \/ odd[high]) THEN inc[high] ELSE high

roundShift[ls \in Limbs, s \in Nat, a \in Shifted] ==
    [m |-> roundUp[a, shr[a.q, 1].q], e |-> s]

\* Round to nearest, ties to even: the exact natural number ls as a float64.
roundNearestEven[ls \in Limbs] ==
    IF bitLen[ls] <= SignificandBits THEN [m |-> ls, e |-> 0]
    ELSE roundShift[ls, bitLen[ls] - SignificandBits,
                    shr[ls, bitLen[ls] - SignificandBits - 1]]

MicrosPerSecond == 1000000

\* The quotient d of us * 2^k by 10^6, rounded to nearest, ties to even.
parseRound[k \in Nat, d \in QuotRem] ==
    [m |-> IF \/ 2 * d.r > MicrosPerSecond
              \/ 2 * d.r = MicrosPerSecond /\ odd[d.q]
           THEN inc[d.q] ELSE d.q,
     e |-> 0 - k]

\* The scale k for which the quotient of us * 2^k by 10^6 has 53 bits.
parseScale[ls \in Limbs, k0 \in Nat] ==
    IF bitLen[divSmall[shl[ls, k0], MicrosPerSecond].q] = SignificandBits
    THEN k0 ELSE k0 - 1

parseAt[ls \in Limbs, k \in Nat] == parseRound[k, divSmall[shl[ls, k], MicrosPerSecond]]

\* strconv.ParseFloat of the decimal us / 10^6 (a JSON number of seconds with
\* at most six decimals), us > 0: the nearest float64, ties to even.
parseFloat[us \in Nat] ==
    parseAt[limbsOf[us], parseScale[limbsOf[us], SignificandBits + 20 - bitLen[limbsOf[us]]]]

Float == [m : Limbs, e : Int]

mulOut[f \in Float, p \in Float] == [m |-> p.m, e |-> f.e + p.e]

\* f * c for a small whole c: the exact product, rounded.
mulFloat[f \in Float, c \in Nat] == mulOut[f, roundNearestEven[trim[mulSmall[f.m, c, 0]]]]

\* The conversion of a float64 that is not negative to an integer: the
\* fraction is dropped.
truncFloat[f \in Float] ==
    IF f.e >= 0 THEN natOf[shl[f.m, f.e]] ELSE natOf[shr[f.m, 0 - f.e].q]

\* time.Duration(el*1000), the float64 el being us microseconds.
millisOf[us \in Int] ==
    IF us = 0 THEN 0
    ELSE IF us > 0 THEN truncFloat[mulFloat[parseFloat[us], 1000]]
    ELSE 0 - truncFloat[mulFloat[parseFloat[0 - us], 1000]]

\* The elapsed values of the payloads of the runs, in microseconds, and
\* their conversions, computed once.
SeriesMicros == {1024000, 8096000}

elapsedMemo == [us \in SeriesMicros |-> millisOf[us]]

\* time.Duration(el*1000) * time.Millisecond, in milliseconds; el is given in
\* microseconds.
elapsedOf(us) == IF us \in SeriesMicros THEN elapsedMemo[us] ELSE millisOf[us]

\* json.Unmarshal of one series into [][2]float64: an error when an element
\* of a pair is not a number.
floatPairsOk(payload) ==
    \A i \in 1..Len(payload) : \A j \in 1..2 : elem(payload[i], j).k \in {"num", "zero"}

floatPairsReversed(payload) ==
    [i \in 1..Len(payload) |->
        [Elapsed |-> elapsedOf(elem(payload[Len(payload) + 1 - i], 1).v),
         Value |-> elem(payload[Len(payload) + 1 - i], 2).v]]

floatPairs(payload) ==
    [i \in 1..Len(payload) |-> [Elapsed |-> elapsedOf(elem(payload[i], 1).v),
                                Value |-> elem(payload[i], 2).v]]

\* The position loop: an error when the second element is not an object or
\* the first is not a number.
positionsOk(payload) ==
    \A i \in 1..Len(payload) :
        /\ elem(payload[i], 2).k = "obj"
        /\ elem(payload[i], 1).k = "num"

positions(payload) ==
    [i \in 1..Len(payload) |->
        [Elapsed |-> elapsedOf(payload[i][1].v), Elevation |-> payload[i][2].elevation,
         Lat |-> payload[i][2].lat, Lng |-> payload[i][2].lng]]

\* One case of the switch on the series name.
decodeSeries(k, v, w) ==
    CASE k = "distance" ->
           IF floatPairsOk(v)
           THEN [err |-> "nil", wk |-> [w EXCEPT !.Distances = w.Distances \o floatPairs(v)]]
           ELSE [err |-> "decode", wk |-> w]
      [] k = "position" ->
           IF positionsOk(v)
           THEN [err |-> "nil", wk |-> [w EXCEPT !.Positions = w.Positions \o positions(v)]]
           ELSE [err |-> "decode", wk |-> w]
      [] k = "speed" ->
           IF floatPairsOk(v)
           THEN [err |-> "nil", wk |-> [w EXCEPT !.Speeds = w.Speeds \o floatPairs(v)]]
           ELSE [err |-> "decode", wk |-> w]
      [] k = "steps" ->
           IF floatPairsOk(v)
           THEN [err |-> "nil", wk |-> [w EXCEPT !.Steps = w.Steps \o floatPairs(v)]]
           ELSE [err |-> "decode", wk |-> w]
      [] OTHER -> [err |-> "nil", wk |-> w]

\* range rawresp.Timeseries, the keys taken in the order ks.
RECURSIVE seriesLoop(_, _, _)
seriesLoop(ts, ks, w) ==
    IF ks = <<>> THEN [err |-> "nil", wk |-> w]
    ELSE LET r == decodeSeries(Head(ks), ts[Head(ks)], w)
         IN  IF r.err # "nil" THEN r ELSE seriesLoop(ts, Tail(ks), r.wk)

\* A detail response: the status, whether the body decodes into rawresp, the
\* three instants and the time_series map.
Detail(status, json, r, ts) ==
    [status |-> status, json |-> json, CreatedAt |-> r.CreatedAt,
     StartedAt |-> r.StartedAt, UpdatedAt |-> r.UpdatedAt, Timeseries |-> ts]

fillMainDataWhole(resp, ks, w) ==
    IF resp.status # 200 THEN [err |-> "status", wk |-> w]
    ELSE IF ~resp.json THEN [err |-> "json", wk |-> w]
    ELSE seriesLoop(resp.Timeseries, ks,
                    [w EXCEPT !.CreatedAt = resp.CreatedAt,
                              !.StartedAt = resp.StartedAt,
                              !.UpdatedAt = resp.UpdatedAt,
                              !.Gain = 0])

\* fillMainData once the response is in; ks is the order in which the map of
\* series is ranged over.
fillMainData(resp, ks, w) ==
    IF resp.status # 200 THEN [err |-> "status", wk |-> w]
    ELSE IF ~resp.json THEN [err |-> "json", wk |-> w]
    ELSE seriesLoop(resp.Timeseries, ks,
                    [w EXCEPT !.CreatedAt = resp.CreatedAt,
                              !.StartedAt = resp.StartedAt,
                              !.UpdatedAt = resp.UpdatedAt])

-----------------------------------------------------------------------------
(* fillWorkout: the errgroup *)

groupErrLast(g, e) == e

\* errOnce: the group keeps the first error a task returns.
groupErr(g, e) == IF g = "nil" THEN e ELSE g

-----------------------------------------------------------------------------
(* GetWorkouts *)

outOfRangeNever(w, b, e) == FALSE

\* wk.StartedAt.Before(begin) || wk.StartedAt.After(end)
outOfRange(w, b, e) == Before(w.StartedAt, b) \/ After(w.StartedAt, e)

\* Insertion of w into the sorted prefix: w moves left past every element it
\* is less than (sort.Slice on fewer than twelve elements).
RECURSIVE insertSorted(_, _)
insertSorted(sorted, w) ==
    IF sorted # <<>> /\ Before(w.StartedAt, sorted[Len(sorted)].StartedAt)
    THEN Append(insertSorted(SubSeq(sorted, 1, Len(sorted) - 1), w), sorted[Len(sorted)])
    ELSE Append(sorted, w)

RECURSIVE sortLoop(_, _)
sortLoop(ws, sorted) ==
    IF ws = <<>> THEN sorted ELSE sortLoop(Tail(ws), insertSorted(sorted, Head(ws)))

sortWorkoutsNot(ws) == ws

\* sort.Slice(workouts, func(i, j) { return workouts[i].StartedAt.Before(workouts[j].StartedAt) })
sortWorkouts(ws) == sortLoop(ws, <<>>)

returnErrPartial(acc, e) == [returned |-> TRUE, workouts |-> acc, err |-> e]

\* return nil, err
returnErr(acc, e) == [returned |-> TRUE, workouts |-> <<>>, err |-> e]

-----------------------------------------------------------------------------
(* The provider's contents *)

GainCell == <<" ", "1", "0", " ">>

\* The detail pages of the runs: no elevation table, a gain of 10, a blank
\* cell, dashes, another first row, a cell that is no number.
RunPages ==
    {Page(200, FALSE, "", <<>>), Page(200, TRUE, "Gain", GainCell),
     Page(200, TRUE, "Gain", <<" ">>), Page(200, TRUE, "Gain", <<"-", "-">>),
     Page(200, TRUE, "Start", GainCell), Page(200, TRUE, "Gain", <<"x">>)}

NoSeries == <<>>

OneSeries == [k \in {"distance", "cadence"} |-> <<<<Num(1024000), Num(5)>>>>]

BadSeries == [k \in {"distance", "speed"} |->
                 IF k = "speed" THEN <<<<Str, Num(5)>>>> ELSE <<<<Num(1024000), Num(5)>>>>]

\* created_datetime relative to start_datetime, in ticks: workout 1 was
\* created before it started, the others when they started.
LagOf(id) == IF id = 1 THEN -2 ELSE 0

ContentsOf(id) ==
    IF id = 1 THEN [ts |-> OneSeries, page |-> Page(200, TRUE, "Gain", GainCell)]
    ELSE [ts |-> NoSeries, page |-> Page(200, FALSE, "", <<>>)]

\* Spec: the provider's zone and the workouts' instants vary; workout 1 has a
\* series and a gain, the others have neither.
Remotes ==
    {[id \in IDs |-> RemoteWorkout(at[id], zone, LagOf(id), ContentsOf(id).ts, ContentsOf(id).page)] :
        zone \in Offsets,
        at \in {f \in [IDs -> RunTicks] : \A a, b \in IDs : a < b => f[a] <= f[b]}}

Init ==
    /\ remote \in Remotes
    /\ Idle /\ IdleDB /\ IdleFn

-----------------------------------------------------------------------------
(* The steps of GetWorkouts *)

\* The caller's begin and end are UTC times (time.Parse of a day, as the sync
\* command's flags are read).
CallTimes == {Time(i, 0) : i \in RunTicks}

\* The locals of GetWorkouts are gone once it has returned.
Gone ==
    /\ mi' = 0
    /\ mwks' = <<>>
    /\ wk' = ZeroWorkout
    /\ gainPage' = NoPage
    /\ workouts' = <<>>

\* GetWorkouts(ctx, begin, end) is called: beginDate, endDate and the months.
\* Calls with end before begin are made with end one tick before begin: the
\* two can then still share a day, so that entries pass the date filter.
Call ==
    /\ pc = "idle"
    /\ \E b \in CallTimes, e \in CallTimes :
          /\ e.inst >= b.inst - 1
          /\ begin' = b
          /\ end' = e
          /\ ms' = months(b, e)
    /\ mi' = 1
    /\ pc' = "list"
    /\ UNCHANGED <<remote, mwks, wk, task, gainPage, gerr, cancelled, errLog, fetches,
                   workouts, ret, dbVars, fnVars>>

\* Whether a dashboard carries the entries of the adjacent months too: the
\* provider does it at times; under SpecSpill it does it on every request.
Spills == IF "spill" \in DOMAIN fin THEN {fin.spill} ELSE BOOLEAN

\* getMonthWorkoutsForRange for the current bucket, the request answered with
\* a dashboard (one of whose entries may be malformed).
ListMonth ==
    /\ pc = "list"
    /\ \E spill \in Spills, how \in {"none", "date", "url_nonint", "url_short"} :
       \E es \in Dashboards(remote, Year(ms[mi]), Month(ms[mi]), spill) :
          LET resp == IF how = "none" \/ es = <<>> THEN es
                      ELSE [es EXCEPT ![1] = Corrupt(es[1], how)]
              r == getMonthWorkoutsForRange(resp, Year(ms[mi]), Month(ms[mi]),
                                            toDate(begin), toDate(end))
          IN  \/ /\ r.st = "ok"
                 /\ mwks' = r.wks
                 /\ pc' = "range"
                 /\ UNCHANGED <<mi, wk, gainPage, workouts, ret>>
              \/ /\ r.st = "err"
                 /\ ret' = returnErr(workouts, r.err)
                 /\ pc' = "done"
                 /\ Gone
              \/ /\ r.st = "panic"
                 /\ pc' = "panic"
                 /\ Gone
                 /\ UNCHANGED ret
    /\ UNCHANGED <<begin, end, remote, ms, task, gerr, cancelled, errLog, fetches,
                   dbVars, fnVars>>

\* The listing request fails: httpDo's error, a status other than 200, or a
\* body that does not decode.
ListFail ==
    /\ pc = "list"
    /\ \E e \in {"transport", "status", "json"} : ret' = returnErr(workouts, e)
    /\ pc' = "done"
    /\ Gone
    /\ UNCHANGED <<begin, end, remote, ms, task, gerr, cancelled, errLog, fetches,
                   dbVars, fnVars>>

\* The next summary of the bucket: fillWorkout starts its two tasks.
NextWorkout ==
    /\ pc = "range"
    /\ mwks # <<>>
    /\ wk' = Head(mwks)
    /\ mwks' = Tail(mwks)
    /\ task' = [t \in {"main", "gain"} |-> [st |-> "running", err |-> "nil"]]
    /\ gainPage' = NoPage
    /\ gerr' = "nil"
    /\ cancelled' = FALSE
    /\ errLog' = <<>>
    /\ fetches' = Append(fetches, Head(mwks).ID)
    /\ pc' = "fill"
    /\ UNCHANGED <<begin, end, remote, ms, mi, workouts, ret, dbVars, fnVars>>

\* A task of the group returns e: the group keeps the first error and cancels
\* the shared context.
TaskReturns(t, e) ==
    /\ task' = [task EXCEPT ![t] = [st |-> IF e = "nil" THEN "ok" ELSE "err", err |-> e]]
    /\ gerr' = IF e = "nil" THEN gerr ELSE groupErr(gerr, e)
    /\ cancelled' = (cancelled \/ e # "nil")
    /\ errLog' = IF e = "nil" THEN errLog ELSE Append(errLog, e)

\* The errors httpDo can return: a transport error, or the context's once the
\* sibling has failed.
TransportErrors == IF cancelled THEN {"transport", "canceled"} ELSE {"transport"}

\* fillMainData returns: the request failed, or it was answered with the
\* workout's detail, with another status, or with a body that does not decode.
MainReturns ==
    /\ pc = "fill"
    /\ task["main"].st = "running"
    /\ \/ \E e \in TransportErrors : TaskReturns("main", e) /\ UNCHANGED wk
       \/ \E status \in {200, 500}, json \in BOOLEAN :
             LET r == remote[wk.ID]
                 resp == Detail(status, json, r, r.Timeseries)
             IN  \E ks \in Perms(DOMAIN r.Timeseries) :
                    LET res == fillMainData(resp, ks, wk)
                    IN  /\ wk' = res.wk
                        /\ TaskReturns("main", res.err)
    /\ UNCHANGED <<begin, end, remote, pc, ms, mi, mwks, gainPage, fetches, workouts, ret,
                   dbVars, fnVars>>

\* fillGainData returns: the request failed, or it was answered with the
\* workout's page or with another status.
GainReturns ==
    /\ pc = "fill"
    /\ task["gain"].st = "running"
    /\ \/ \E e \in TransportErrors :
             TaskReturns("gain", e) /\ UNCHANGED <<wk, gainPage>>
       \/ \E status \in {200, 500} :
             LET page == [remote[wk.ID].Page EXCEPT !.status = status]
                 res == fillGainData(page, wk)
             IN  /\ gainPage' = page
                 /\ wk' = res.wk
                 /\ TaskReturns("gain", res.err)
    /\ UNCHANGED <<begin, end, remote, pc, ms, mi, mwks, fetches, workouts, ret,
                   dbVars, fnVars>>

JoinEarly ==
    /\ pc = "fill"
    /\ \E t \in {"main", "gain"} : task[t].st \in {"ok", "err"}
    /\ \/ /\ gerr # "nil"
          /\ ret' = returnErr(workouts, gerr)
          /\ pc' = "done"
          /\ mi' = 0 /\ mwks' = <<>> /\ workouts' = <<>>
          /\ UNCHANGED <<wk, gainPage>>
       \/ /\ gerr = "nil"
          /\ workouts' = IF outOfRange(wk, begin, end) THEN workouts ELSE Append(workouts, wk)
          /\ pc' = "range"
          /\ UNCHANGED <<mi, mwks, wk, gainPage, ret>>
    /\ UNCHANGED <<begin, end, remote, ms, task, gerr, cancelled, errLog, fetches,
                   dbVars, fnVars>>

JoinLenient ==
    /\ pc = "fill"
    /\ \A t \in {"main", "gain"} : task[t].st \in {"ok", "err"}
    /\ workouts' = IF outOfRange(wk, begin, end) THEN workouts ELSE Append(workouts, wk)
    /\ pc' = "range"
    /\ UNCHANGED <<mi, mwks, wk, gainPage, ret>>
    /\ UNCHANGED <<begin, end, remote, ms, task, gerr, cancelled, errLog, fetches,
                   dbVars, fnVars>>

\* g.Wait() returns and GetWorkouts goes on: the error ends the call, a
\* workout out of the range is skipped, another is appended.
Join ==
    /\ pc = "fill"
    /\ \A t \in {"main", "gain"} : task[t].st \in {"ok", "err"}
    /\ \/ /\ gerr # "nil"
          /\ ret' = returnErr(workouts, gerr)
          /\ pc' = "done"
          /\ mi' = 0 /\ mwks' = <<>> /\ workouts' = <<>>
          /\ UNCHANGED <<wk, gainPage>>
       \/ /\ gerr = "nil"
          /\ workouts' = IF outOfRange(wk, begin, end) THEN workouts ELSE Append(workouts, wk)
          /\ pc' = "range"
          /\ UNCHANGED <<mi, mwks, wk, gainPage, ret>>
    /\ UNCHANGED <<begin, end, remote, ms, task, gerr, cancelled, errLog, fetches,
                   dbVars, fnVars>>

\* The bucket is done and another follows.
NextMonth ==
    /\ pc = "range"
    /\ mwks = <<>>
    /\ mi < Len(ms)
    /\ mi' = mi + 1
    /\ pc' = "list"
    /\ UNCHANGED <<begin, end, remote, ms, mwks, wk, task, gainPage, gerr, cancelled,
                   errLog, fetches, workouts, ret, dbVars, fnVars>>

\* The last bucket is done: sort and return.
Finish ==
    /\ pc = "range"
    /\ mwks = <<>>
    /\ mi = Len(ms)
    /\ ret' = [returned |-> TRUE, workouts |-> sortWorkouts(workouts), err |-> "nil"]
    /\ pc' = "done"
    /\ Gone
    /\ UNCHANGED <<begin, end, remote, ms, task, gerr, cancelled, errLog, fetches,
                   dbVars, fnVars>>

Next ==
    \/ Call
    \/ ListMonth
    \/ ListFail
    \/ NextWorkout
    \/ MainReturns
    \/ GainReturns
    \/ Join
    \/ NextMonth
    \/ Finish

Spec == Init /\ [][Next]_vars

-----------------------------------------------------------------------------
(* GetWorkouts: what it returns *)

Succeeded == ret.returned /\ ret.err = "nil"

InRange(t) == begin.inst <= t.inst /\ t.inst <= end.inst

Returned(id) == \E i \in 1..Len(ret.workouts) : ret.workouts[i].ID = id

\* The enrichment requests for provider workout id were issued.
Fetched(id) == \E i \in 1..Len(fetches) : fetches[i] = id

\* C1: for all begin <= end and any provider contents, every workout in the
\* sequence GetWorkouts returns has begin <= startedAt <= end.
C1_ReturnedInRange ==
    (ret.returned /\ begin.inst <= end.inst) =>
        \A i \in 1..Len(ret.workouts) : InRange(ret.workouts[i].StartedAt)

\* A call returned a workout and left out one it had enriched, whose date
\* passed the listing's filters but whose start is outside [begin, end].
C1_Witness ==
    /\ Succeeded
    /\ begin.inst <= end.inst
    /\ \E a, b \in IDs :
          /\ Returned(a)
          /\ Fetched(b) /\ ~Returned(b) /\ ~InRange(remote[b].StartedAt)

\* C2 as stated: every provider workout whose startedAt lies in [begin, end]
\* is in the result of a successful call.
C2_AsStated ==
    Succeeded => \A id \in IDs : InRange(remote[id].StartedAt) => Returned(id)

\* C3 as stated: a workout created before begin that starts in [begin, end] is
\* returned, and a workout created in [begin, end] that starts outside it is
\* not returned.
C3_AsStated ==
    Succeeded =>
        \A id \in IDs :
            /\ (Before(remote[id].CreatedAt, begin) /\ InRange(remote[id].StartedAt))
                  => Returned(id)
            /\ (InRange(remote[id].CreatedAt) /\ ~InRange(remote[id].StartedAt))
                  => ~Returned(id)

\* C4: the sequence a successful GetWorkouts returns is sorted ascending by
\* startedAt: for i < j, result[j].startedAt is not before result[i].startedAt.
C4_Sorted ==
    Succeeded =>
        \A i, j \in 1..Len(ret.workouts) :
            i < j => ~(ret.workouts[j].StartedAt.inst < ret.workouts[i].StartedAt.inst)

\* Two workouts were enriched in one order and returned in the other.
C4_Witness ==
    /\ Succeeded
    /\ Len(fetches) = 2 /\ Len(ret.workouts) = 2
    /\ ret.workouts[1].ID = fetches[2]
    /\ ret.workouts[2].ID = fetches[1]
    /\ ret.workouts[1].StartedAt.inst < ret.workouts[2].StartedAt.inst

\* C5: when a listing request or an enrichment request fails, GetWorkouts
\* returns the error with an empty result, never the workouts fetched so far.
C5_NoPartialResult ==
    (ret.returned /\ ret.err # "nil") => ret.workouts = <<>>

\* The call failed at its second workout, after the first, which starts in the
\* range, had been enriched and appended.
C5_Witness ==
    /\ ret.returned /\ ret.err # "nil"
    /\ Len(fetches) = 2
    /\ InRange(remote[fetches[1]].StartedAt)
    /\ ret.workouts = <<>>

-----------------------------------------------------------------------------
(* fillWorkout over the pages and series a workout can have *)

\* SpecFill: workout 1 has any of the pages and series, at a fixed instant in
\* the caller's zone; the others are as in Spec.
FillRemotes ==
    {[id \in IDs |->
         IF id = 1 THEN RemoteWorkout(YearStart - 3, 0, LagOf(id), ts, page)
         ELSE RemoteWorkout(YearStart - 2, 0, LagOf(id), ContentsOf(id).ts, ContentsOf(id).page)] :
        ts \in {NoSeries, OneSeries, BadSeries}, page \in RunPages}

InitFill ==
    /\ remote \in FillRemotes
    /\ Idle /\ IdleDB /\ IdleFn

SpecFill == InitFill /\ [][Next]_vars

GainDone == task["gain"].st \in {"ok", "err"}

\* The gain fetch was answered with a page whose anchor row is there but whose
\* label is not "Gain", or whose trimmed cell is neither empty, nor "--", nor
\* an integer.
BadGain ==
    /\ GainDone
    /\ gainPage.status = 200
    /\ gainPage.anchor
    /\ \/ gainPage.label # "Gain"
       \/ /\ Trimmed(gainPage.cell) \notin {<<>>, <<"-", "-">>}
          /\ ~IsDecimal(Trimmed(gainPage.cell))

\* C8: gain extraction fails with an error, and thereby aborts the enrichment
\* and the whole GetWorkouts call, when the anchor is present but its label is
\* not "Gain", and when the label is "Gain" but the trimmed cell text is
\* neither empty, nor "--", nor an integer; no gain value is assigned.
C8_GainErrors ==
    BadGain =>
        /\ task["gain"].st = "err"
        /\ wk.Gain = 0
        /\ gerr # "nil"
        /\ pc \in {"fill", "done"}
        /\ pc = "done" => (ret.returned /\ ret.err # "nil" /\ ret.workouts = <<>>)

\* The call ended in the error of a gain row labelled "Gain" whose cell is no
\* number, after the main fetch had succeeded.
C8_Witness ==
    /\ BadGain
    /\ gainPage.label = "Gain"
    /\ task["main"].st = "ok"
    /\ pc = "done"
    /\ ret.err # "nil"

\* C9: the two fetches share one cancellation scope: if either fails the scope
\* is cancelled for the sibling, the enrichment's error is the first error that
\* occurred, not a later cancellation error of the sibling, and GetWorkouts
\* never places the partially filled workout in its result.
C9_FirstError ==
    /\ (gerr # "nil") = (errLog # <<>>)
    /\ errLog # <<>> =>
          /\ cancelled
          /\ gerr = errLog[1]
          /\ gerr # "canceled"
          /\ pc \in {"fill", "done"}
          /\ pc = "done" => (ret.returned /\ ret.err = errLog[1] /\ ret.workouts = <<>>)

\* The gain fetch failed first, the main fetch then ended with the context's
\* error, and the call returned the gain fetch's error and no workout.
C9_Witness ==
    /\ Len(errLog) = 2
    /\ errLog[2] = "canceled"
    /\ task["main"].err = "canceled"
    /\ pc = "done"
    /\ ret.err = task["gain"].err
    /\ wk.ID # 0

-----------------------------------------------------------------------------
(* The store *)

\* The child tables, in the order sync deletes from them.
ChildTables == <<"workout_steps", "workout_speeds", "workout_positions", "workout_distances">>

SecondsWhole(elapsed) == (elapsed \div 1000) * 1000

\* d.Elapsed.Seconds(), kept in milliseconds.
Seconds(elapsed) == elapsed

\* The statements of sync's transaction, in order.
Delete(t, id) == [op |-> "delete", table |-> t, id |-> id, row |-> <<>>]

Insert(t, row) == [op |-> "insert", table |-> t, id |-> 0, row |-> row]

parentRow(userName, w) ==
    [id |-> w.ID, user_name |-> userName, name |-> w.Name, kind |-> w.Kind,
     kcal |-> w.Kcal, distance_m |-> w.Distance, speed_mps |-> w.Speed,
     duration |-> w.Duration \div 1000, step_count |-> w.StepCount, gain_m |-> w.Gain,
     started_at |-> w.StartedAt, created_at |-> w.CreatedAt, updated_at |-> w.UpdatedAt]

valueRow(w, x) ==
    [workout_id |-> w.ID, elapsed_seconds |-> Seconds(x.Elapsed), value |-> x.Value]

positionRow(w, p) ==
    [workout_id |-> w.ID, elapsed_seconds |-> Seconds(p.Elapsed), elevation |-> p.Elevation,
     lat |-> p.Lat, lng |-> p.Lng]

statementsNoChildDelete(userName, w) ==
    <<Delete("workouts", w.ID)>>
    \o <<Insert("workouts", parentRow(userName, w))>>
    \o [i \in 1..Len(w.Distances) |-> Insert("workout_distances", valueRow(w, w.Distances[i]))]
    \o [i \in 1..Len(w.Positions) |-> Insert("workout_positions", positionRow(w, w.Positions[i]))]
    \o [i \in 1..Len(w.Speeds) |-> Insert("workout_speeds", valueRow(w, w.Speeds[i]))]
    \o [i \in 1..Len(w.Steps) |-> Insert("workout_steps", valueRow(w, w.Steps[i]))]

statements(userName, w) ==
    [i \in 1..4 |-> Delete(ChildTables[i], w.ID)]
    \o <<Delete("workouts", w.ID)>>
    \o <<Insert("workouts", parentRow(userName, w))>>
    \o [i \in 1..Len(w.Distances) |-> Insert("workout_distances", valueRow(w, w.Distances[i]))]
    \o [i \in 1..Len(w.Positions) |-> Insert("workout_positions", positionRow(w, w.Positions[i]))]
    \o [i \in 1..Len(w.Speeds) |-> Insert("workout_speeds", valueRow(w, w.Speeds[i]))]
    \o [i \in 1..Len(w.Steps) |-> Insert("workout_steps", valueRow(w, w.Steps[i]))]

withoutAny(rows, id) == <<>>

RECURSIVE without(_, _)
without(rows, id) ==
    IF rows = <<>> THEN <<>>
    ELSE IF Head(rows).workout_id = id THEN without(Tail(rows), id)
    ELSE <<Head(rows)>> \o without(Tail(rows), id)

\* One statement on the store d: the store after it, or the error of an
\* insert that breaks the primary key of workouts.
exec(d, st) ==
    IF st.op = "delete"
    THEN IF st.table = "workouts"
         THEN [db |-> [d EXCEPT !.workouts = {r \in d.workouts : r.id # st.id}], err |-> "nil"]
         ELSE [db |-> [d EXCEPT ![st.table] = without(d[st.table], st.id)], err |-> "nil"]
    ELSE IF st.table = "workouts"
         THEN IF \E r \in d.workouts : r.id = st.row.id
              THEN [db |-> d, err |-> "constraint"]
              ELSE [db |-> [d EXCEPT !.workouts = d.workouts \cup {st.row}], err |-> "nil"]
         ELSE [db |-> [d EXCEPT ![st.table] = Append(d[st.table], st.row)], err |-> "nil"]

\* The statements sts run in a transaction on d, the k-th of them failing
\* (none when k = 0): the store inside the transaction when it stops, and the
\* error that stopped it.
RECURSIVE execAll(_, _, _)
execAll(d, sts, k) ==
    IF sts = <<>> THEN [db |-> d, err |-> "nil"]
    ELSE IF k = 1 THEN [db |-> d, err |-> "exec"]
    ELSE LET r == exec(d, Head(sts))
         IN  IF r.err # "nil" THEN r ELSE execAll(r.db, Tail(sts), IF k = 0 THEN 0 ELSE k - 1)

\* Where a call of sync can fail: 0 nowhere, 1 at BeginTx, 2 .. n+1 at one of
\* its n statements, n+2 at Commit.
FailPoints(userName, w) == 0..(Len(statements(userName, w)) + 2)

syncNoTx(d, userName, w, failAt) ==
    LET sts == statements(userName, w)
        n == Len(sts)
        tx == execAll(d, sts, IF failAt \in 2..(n + 1) THEN failAt - 1 ELSE 0)
    IN  IF failAt = 1 THEN [db |-> d, err |-> "begin"]
        ELSE IF tx.err # "nil" THEN [db |-> tx.db, err |-> tx.err]
        ELSE IF failAt = n + 2 THEN [db |-> d, err |-> "commit"]
        ELSE [db |-> tx.db, err |-> "nil"]

\* DB.sync: the store after the call and the error it returns; a failure
\* before Commit has succeeded leaves the deferred Rollback to undo the
\* transaction.
sync(d, userName, w, failAt) ==
    LET sts == statements(userName, w)
        n == Len(sts)
        tx == execAll(d, sts, IF failAt \in 2..(n + 1) THEN failAt - 1 ELSE 0)
    IN  IF failAt = 1 THEN [db |-> d, err |-> "begin"]
        ELSE IF tx.err # "nil" THEN [db |-> d, err |-> tx.err]
        ELSE IF failAt = n + 2 THEN [db |-> d, err |-> "commit"]
        ELSE [db |-> tx.db, err |-> "nil"]

-----------------------------------------------------------------------------
(* The store on its own *)

Users == {"ann", "bob"}

StoreIDs == {1, 2}

StoreTimes == {Time(YearStart - 2, 0), Time(YearStart, -1)}

\* A fetched workout with n samples in each of its four series.
StoreWorkout(id, t, n) ==
    [ZeroWorkout EXCEPT
        !.ID = id, !.Name = "ride home", !.Kind = "ride", !.Duration = 60000, !.Gain = 10,
        !.StartedAt = t, !.CreatedAt = t, !.UpdatedAt = t,
        !.Distances = [i \in 1..n |-> [Elapsed |-> 1024 * i, Value |-> 5 * i]],
        !.Positions = [i \in 1..n |-> [Elapsed |-> 1024 * i, Elevation |-> 10,
                                       Lat |-> 44, Lng |-> -75]],
        !.Speeds = [i \in 1..n |-> [Elapsed |-> 1024 * i, Value |-> 7]],
        !.Steps = [i \in 1..n |-> [Elapsed |-> 1024 * i, Value |-> 3]]]

StoreWorkouts ==
    {StoreWorkout(id, t, n) : id \in StoreIDs, t \in StoreTimes, n \in 0..MaxSamples}

\* The store of a new database file, after init.
InitDB ==
    /\ db = EmptyDB
    /\ dbRet = [op |-> "none", err |-> "nil", id |-> 0, stage |-> "none"]
    /\ dbCall = NoCall
    /\ run = NoRun
    /\ IdleClient /\ IdleFn

\* The step of sync at which fail point failAt lies, n being the number of
\* its statements.
stageOf(failAt, n) ==
    CASE failAt = 0 -> "none"
      [] failAt = 1 -> "begin"
      [] failAt \in 2..5 -> "delete child"
      [] failAt = 6 -> "delete parent"
      [] failAt = 7 -> "insert parent"
      [] failAt \in 8..(n + 1) -> "insert child"
      [] OTHER -> "commit"

\* One call of sync.
Sync ==
    /\ \E userName \in Users, w \in StoreWorkouts :
       \E failAt \in FailPoints(userName, w) :
          LET r == sync(db, userName, w, failAt)
          IN  /\ db' = r.db
              /\ dbRet' = [op |-> "sync", err |-> r.err, id |-> w.ID,
                           stage |-> stageOf(failAt, Len(statements(userName, w)))]
    /\ UNCHANGED <<clientVars, fnVars, dbCall, run>>

NextDB == Sync

SpecDB == InitDB /\ [][NextDB]_vars

\* C10: sync is atomic: when a statement of the transaction or the commit
\* fails, the store after the call (the parent rows and the four child
\* tables) is the store before the call.
C10_SyncAtomic ==
    [][(dbRet'.op = "sync" /\ dbRet'.err # "nil") => db' = db]_vars

\* A sync of a stored workout failed at one of its child inserts, after its
\* deletes and its parent insert had run, and the workout's rows are there.
C10_Witness ==
    /\ dbRet.op = "sync"
    /\ dbRet.err # "nil"
    /\ dbRet.stage = "insert child"
    /\ \E r \in db.workouts : r.id = dbRet.id
    /\ \E i \in 1..Len(db.workout_distances) : db.workout_distances[i].workout_id = dbRet.id

-----------------------------------------------------------------------------
(* removeExtra *)

\* A time.Time as the driver binds it and as the store keeps it: the text
\* "2006-01-02 15:04:05.999999999-07:00", written in the value's own location.
\* Texts of one layout compare as the triple of their wall clock, the sign of
\* their offset ('+' sorts before '-') and the digits of their offset.
Format(t) ==
    <<t.inst + t.off, IF t.off >= 0 THEN 0 ELSE 1, IF t.off >= 0 THEN t.off ELSE 0 - t.off>>

\* Comparison of two texts, as the store compares started_at with $1 and $2.
textLess(a, b) ==
    \/ a[1] < b[1]
    \/ a[1] = b[1] /\ a[2] < b[2]
    \/ a[1] = b[1] /\ a[2] = b[2] /\ a[3] < b[3]

textLE(a, b) == a = b \/ textLess(a, b)

\* The ids of the fetched workouts, joined into "id not in (...)".
idsOf(ws) == {ws[i].ID : i \in 1..Len(ws)}

\* where started_at >= $1 and started_at <= $2 and user_name=$3 and id not in (ids)
extra(r, userName, b, e, ids) ==
    /\ textLE(Format(b), Format(r.started_at))
    /\ textLE(Format(r.started_at), Format(e))
    /\ r.user_name = userName
    /\ r.id \notin ids

\* DB.removeExtra: one delete on the parent table, outside any transaction.
\* fail is "exec" when ExecContext fails, "rows" when RowsAffected does.
removeExtra(d, userName, b, e, ws, fail) ==
    LET gone == {r \in d.workouts : extra(r, userName, b, e, idsOf(ws))}
        after == [d EXCEPT !.workouts = d.workouts \ gone]
    IN  CASE fail = "exec" -> [db |-> d, err |-> "exec", ra |-> 0]
          [] fail = "rows" -> [db |-> after, err |-> "rows", ra |-> 0]
          [] OTHER -> [db |-> after, err |-> "nil", ra |-> Cardinality(gone)]

-----------------------------------------------------------------------------
(* The store under sync and removeExtra *)

\* The ranges of removeExtra, <<begin, end>>: begin is a day parsed in UTC; end
\* is a parsed day or time.Now() in the local zone.
StoreRanges ==
    {<<Time(YearStart - 2, 0), Time(YearStart, 0)>>,
     <<Time(YearStart, 0), Time(YearStart, 0)>>,
     <<Time(YearStart - 2, 0), Time(YearStart - 1, 1)>>}

\* The workouts synced here have no samples or several in each series, so
\* that the order of the rows shows.
StoreVersions ==
    {StoreWorkout(id, t, n) : id \in StoreIDs, t \in StoreTimes, n \in {0, MaxSamples + 1}}

\* The fetched workouts handed to removeExtra, which reads their ids only.
Fetches ==
    LET w(id) == StoreWorkout(id, Time(YearStart - 2, 0), 0)
    IN  {<<>>, <<w(1)>>, <<w(2)>>, <<w(1), w(2)>>}

\* The rows of table t that belong to workout id, in the table's order.
rowsOf(d, t, id) == SelectSeq(d[t], LAMBDA r : r.workout_id = id)

InitStore ==
    /\ db = EmptyDB
    /\ dbRet = [op |-> "none", err |-> "nil", id |-> 0, stage |-> "none"]
    /\ dbCall = NoCall
    /\ run = NoRun
    /\ IdleClient /\ IdleFn

\* A call of sync that runs to the end or fails at its last statement.
SyncCall ==
    /\ \E userName \in Users, w \in StoreVersions :
       \E failAt \in {0, Len(statements(userName, w)) + 1} :
          LET r == sync(db, userName, w, failAt)
          IN  /\ db' = r.db
              /\ dbRet' = [op |-> "sync", err |-> r.err, id |-> w.ID,
                           stage |-> stageOf(failAt, Len(statements(userName, w)))]
              /\ dbCall' = [NoCall EXCEPT !.op = "sync", !.user = userName, !.w = w,
                               !.had = Len(rowsOf(db, "workout_distances", w.ID))]
    /\ UNCHANGED <<clientVars, fnVars, run>>

\* A call of removeExtra.
RemoveExtraCall ==
    /\ \E userName \in Users, range \in StoreRanges, ws \in Fetches :
       \E fail \in {"none", "exec", "rows"} :
          LET b == range[1]
              e == range[2]
              r == removeExtra(db, userName, b, e, ws, fail)
          IN  /\ db' = r.db
              /\ dbRet' = [op |-> "removeExtra", err |-> r.err, id |-> 0, stage |-> "none"]
              /\ dbCall' = [NoCall EXCEPT !.op = "removeExtra", !.user = userName,
                               !.begin = b, !.end = e, !.ids = idsOf(ws), !.ra = r.ra]
    /\ UNCHANGED <<clientVars, fnVars, run>>

NextStore == SyncCall \/ RemoveExtraCall

SpecStore == InitStore /\ [][NextStore]_vars

SyncDone == dbCall.op = "sync" /\ dbRet.err = "nil"

\* C11: sync is idempotent: once sync(u, w) has succeeded on any stored state,
\* running sync(u, w) again succeeds and leaves the parent rows and the four
\* child tables, the number of child rows included, as the first call left
\* them.
C11_SyncIdempotent ==
    SyncDone =>
        LET again == sync(db, dbCall.user, dbCall.w, 0)
        IN  again.err = "nil" /\ again.db = db

\* A workout with samples was synced over a stored version of it that had
\* samples, while the other workout's samples are stored too.
C11_Witness ==
    /\ SyncDone
    /\ dbCall.had > 0
    /\ dbCall.w.Distances # <<>>
    /\ \E id \in StoreIDs : id # dbCall.w.ID /\ rowsOf(db, "workout_steps", id) # <<>>

\* What reading workout w of user u back from store d finds: one parent row
\* with w's fields, and in each child table w's samples, as many and in w's
\* order, with their elapsed offsets in milliseconds and their measurements.
valuesStored(rows, samples) ==
    /\ Len(rows) = Len(samples)
    /\ \A i \in 1..Len(rows) :
          /\ rows[i].elapsed_seconds = samples[i].Elapsed
          /\ rows[i].value = samples[i].Value

positionsStored(rows, samples) ==
    /\ Len(rows) = Len(samples)
    /\ \A i \in 1..Len(rows) :
          /\ rows[i].elapsed_seconds = samples[i].Elapsed
          /\ rows[i].elevation = samples[i].Elevation
          /\ rows[i].lat = samples[i].Lat
          /\ rows[i].lng = samples[i].Lng

StoredAs(d, u, w) ==
    /\ Cardinality({r \in d.workouts : r.id = w.ID}) = 1
    /\ \A r \in d.workouts :
          r.id = w.ID =>
             /\ r.user_name = u /\ r.name = w.Name /\ r.kind = w.Kind
             /\ r.kcal = w.Kcal /\ r.distance_m = w.Distance /\ r.speed_mps = w.Speed
             /\ r.duration * 1000 = w.Duration
             /\ r.step_count = w.StepCount /\ r.gain_m = w.Gain
             /\ r.started_at = w.StartedAt /\ r.created_at = w.CreatedAt
             /\ r.updated_at = w.UpdatedAt
    /\ valuesStored(rowsOf(d, "workout_distances", w.ID), w.Distances)
    /\ positionsStored(rowsOf(d, "workout_positions", w.ID), w.Positions)
    /\ valuesStored(rowsOf(d, "workout_speeds", w.ID), w.Speeds)
    /\ valuesStored(rowsOf(d, "workout_steps", w.ID), w.Steps)

\* C12: after a successful sync(u, w) the parent row of w.ID carries w's
\* fields and the rows of w.ID in each of the four child tables are exactly
\* w's samples in w's order; no row of an earlier version of w.ID is left,
\* also when w has fewer samples than that version had.
C12_RoundTrip == SyncDone => StoredAs(db, dbCall.user, dbCall.w)

\* A workout without samples was synced over a stored version of it that had
\* several.
C12_Witness ==
    /\ SyncDone
    /\ dbCall.had > 1
    /\ dbCall.w.Distances = <<>>

RemoveExtraDone == dbCall.op = "removeExtra" /\ dbRet.err = "nil"

\* The start instant of parent row r lies in [b, e].
StartedIn(r, b, e) == ~Before(r.started_at, b) /\ ~After(r.started_at, e)

\* C13 as stated: removeExtra(u, begin, end, fetched) deletes exactly the
\* stored workouts that are attributed to u, have begin <= startedAt <= end and
\* whose id is the id of no fetched workout.
C13_AsStated ==
    [][RemoveExtraDone' =>
          db'.workouts =
             {r \in db.workouts :
                 ~(/\ r.user_name = dbCall'.user
                   /\ StartedIn(r, dbCall'.begin, dbCall'.end)
                   /\ r.id \notin dbCall'.ids)}]_vars

\* C14 as stated: removeExtra(u, begin, end, fetched) leaves as it was every
\* stored workout whose id is fetched, every stored workout that starts
\* outside [begin, end], and every stored workout of another user.
C14_AsStated ==
    [][RemoveExtraDone' =>
          \A r \in db.workouts :
             (\/ r.id \in dbCall'.ids
              \/ ~StartedIn(r, dbCall'.begin, dbCall'.end)
              \/ r.user_name # dbCall'.user)
             => /\ r \in db'.workouts
                /\ \A i \in 1..4 :
                      rowsOf(db', ChildTables[i], r.id) = rowsOf(db, ChildTables[i], r.id)]_vars

\* No row of any table carries the identifier id.
Absent(d, id) ==
    /\ \A r \in d.workouts : r.id # id
    /\ \A i \in 1..4 : rowsOf(d, ChildTables[i], id) = <<>>

\* The rows that carry id are those of one synced version.
Present(d, id) ==
    \E u \in Users, w \in StoreVersions : w.ID = id /\ StoredAs(d, u, w)

\* C15 as stated: in every store reachable by calls of sync and removeExtra,
\* failed ones included, each identifier is absent (no parent row, no child
\* row) or present (one parent row and the child rows of one synced version).
C15_AsStated == \A id \in StoreIDs : Absent(db, id) \/ Present(db, id)

-----------------------------------------------------------------------------
(* The sync command: main *)

\* if err != nil { log.Fatal(err) }
fatalIfNever(err) == FALSE

fatalIfNotFetch(err) == err \notin {"nil", "fetch"}

fatalIf(err) == err # "nil"

\* What GetWorkouts can return for [b, e]: workouts with distinct ids that
\* start in [b, e], in ascending order of start.
RunFetches(b, e) ==
    LET ok(w) == ~Before(w.StartedAt, b) /\ ~After(w.StartedAt, e)
        one == {<<w>> : w \in {v \in StoreVersions : ok(v)}}
        two == {<<v, w>> : v \in {x \in StoreVersions : ok(x)},
                           w \in {x \in StoreVersions : ok(x)}}
    IN  {<<>>} \cup one
        \cup {p \in two : p[1].ID # p[2].ID /\ ~Before(p[2].StartedAt, p[1].StartedAt)}

InitRun ==
    /\ db = EmptyDB
    /\ dbRet = [op |-> "none", err |-> "nil", id |-> 0, stage |-> "none"]
    /\ dbCall = NoCall
    /\ run = NoRun
    /\ IdleClient /\ IdleFn

\* The command is started, for a user and a range, and GetWorkouts returns
\* its workouts.
RunFetch ==
    /\ run.pc \in {"none", "exit", "fatal"}
    /\ run.n < MaxRuns
    /\ \E userName \in Users, range \in StoreRanges :
       \E ws \in RunFetches(range[1], range[2]) :
          run' = [NoRun EXCEPT !.pc = "sync", !.n = run.n + 1, !.user = userName,
                               !.begin = range[1], !.end = range[2], !.fetched = ws,
                               !.k = 1, !.db0 = db]
    /\ UNCHANGED <<db, dbRet, dbCall, clientVars, fnVars>>

\* The command is started and GetWorkouts returns an error.
RunFetchFails ==
    /\ run.pc \in {"none", "exit", "fatal"}
    /\ run.n < MaxRuns
    /\ \E userName \in Users, range \in StoreRanges :
          run' = [NoRun EXCEPT !.pc = IF fatalIf("fetch") THEN "fatal" ELSE "sync",
                               !.err = "fetch",
                               !.n = run.n + 1, !.user = userName,
                               !.begin = range[1], !.end = range[2], !.k = 1, !.db0 = db]
    /\ UNCHANGED <<db, dbRet, dbCall, clientVars, fnVars>>

\* The loop over the fetched workouts: the k-th is synced.
RunSync ==
    /\ run.pc = "sync"
    /\ run.k <= Len(run.fetched)
    /\ LET w == run.fetched[run.k]
       IN  \E failAt \in {0, Len(statements(run.user, w)) + 1} :
              LET r == sync(db, run.user, w, failAt)
              IN  /\ db' = r.db
                  /\ run' = [run EXCEPT
                                !.failed = IF r.err # "nil" /\ @ = 0 THEN run.k ELSE @,
                                !.pc = IF fatalIf(r.err) THEN "fatal" ELSE @,
                                !.k = IF fatalIf(r.err) THEN @ ELSE @ + 1]
    /\ UNCHANGED <<dbRet, dbCall, clientVars, fnVars>>

\* After the loop: removeExtra, and the command ends.
RunRemoveExtra ==
    /\ run.pc = "sync"
    /\ run.k > Len(run.fetched)
    /\ \E fail \in {"none", "exec", "rows"} :
          LET r == removeExtra(db, run.user, run.begin, run.end, run.fetched, fail)
          IN  /\ db' = r.db
              /\ run' = [run EXCEPT !.pc = IF fatalIf(r.err) THEN "fatal" ELSE "exit"]
    /\ UNCHANGED <<dbRet, dbCall, clientVars, fnVars>>

NextRun == RunFetch \/ RunFetchFails \/ RunSync \/ RunRemoveExtra

SpecRun == InitRun /\ [][NextRun]_vars

\* The rows that carry id: the parent rows and the rows of each child table.
rowsWith(d, id) ==
    [parent |-> {r \in d.workouts : r.id = id},
     child |-> [i \in 1..4 |-> rowsOf(d, ChildTables[i], id)]]

\* C16 as stated: after a run for user u and [begin, end] in which
\* GetWorkouts, every sync and removeExtra succeeded, the ids of the stored
\* workouts of u that start in [begin, end] are the ids the fetch returned, and
\* each of them is stored with the content of the fetched value.
C16_AsStated ==
    run.pc = "exit" =>
        /\ {r.id : r \in {x \in db.workouts :
                             x.user_name = run.user /\ StartedIn(x, run.begin, run.end)}}
              = idsOf(run.fetched)
        /\ \A i \in 1..Len(run.fetched) : StoredAs(db, run.user, run.fetched[i])

\* C17: when the k-th sync of a run fails, the run stops there; the k-1
\* workouts synced before it are stored with their new content; every other
\* identifier, those of the remaining fetched workouts included, has the rows
\* it had when the run began: no later sync and no removeExtra has run.
C17_PerWorkout ==
    run.failed > 0 =>
        /\ run.pc = "fatal"
        /\ run.k = run.failed
        /\ \A i \in 1..(run.failed - 1) : StoredAs(db, run.user, run.fetched[i])
        /\ \A id \in StoreIDs :
              id \notin {run.fetched[i].ID : i \in 1..(run.failed - 1)}
                 => rowsWith(db, id) = rowsWith(run.db0, id)

\* The second sync of a run failed after the first had replaced a stored
\* workout, and the second workout is still stored as an earlier run left it,
\* not as it was fetched.
C17_Witness ==
    /\ run.pc = "fatal"
    /\ run.failed = 2
    /\ rowsWith(run.db0, run.fetched[1].ID).parent # {}
    /\ rowsWith(db, run.fetched[1].ID) # rowsWith(run.db0, run.fetched[1].ID)
    /\ rowsWith(run.db0, run.fetched[2].ID).parent # {}
    /\ ~StoredAs(db, run.user, run.fetched[2])

-----------------------------------------------------------------------------
(* fillMainData on its own: the shapes of a time_series payload *)

\* The pairs a series can hold: well formed, short, long, empty, or with an
\* element of another type.
SeriesPairs ==
    {<<Num(1024000), Num(5)>>, <<Num(1024000)>>, <<Num(1024000), Num(5), Num(9)>>, <<>>,
     <<Str, Num(5)>>, <<Num(1024000), Str>>,
     <<Num(1024000), Obj(10, 44, -75)>>, <<Num(1024000), Obj(10, 44, -75), Num(9)>>}

SeriesKeys == {"distance", "position", "speed", "steps", "cadence"}

Payloads == UNION {[1..n -> SeriesPairs] : n \in 1..MaxSamples}

\* time_series maps of one series, and of two series of one pair each.
SeriesMaps ==
    {[k \in {key} |-> v] : key \in SeriesKeys, v \in Payloads}
    \cup {[k \in {k1, k2} |-> IF k = k1 THEN <<p1>> ELSE <<p2>>] :
             k1 \in SeriesKeys, k2 \in SeriesKeys \ {"cadence"},
             p1 \in SeriesPairs, p2 \in SeriesPairs}

InitSeries ==
    /\ \E ts \in SeriesMaps : \E ks \in Perms(DOMAIN ts) : fin = [ts |-> ts, ks |-> ks]
    /\ fout = [done |-> FALSE, err |-> "nil", wk |-> [ZeroWorkout EXCEPT !.ID = 1]]
    /\ IdleClient /\ IdleDB

\* fillMainData on a 200 response that decodes and carries fin.ts.
ApplySeries ==
    /\ ~fout.done
    /\ LET rw == RemoteWorkout(YearStart, 0, 0, fin.ts, NoPage)
           r == fillMainData(Detail(200, TRUE, rw, fin.ts), fin.ks, fout.wk)
       IN  fout' = [done |-> TRUE, err |-> r.err, wk |-> r.wk]
    /\ UNCHANGED <<fin, clientVars, dbVars>>

NextSeries == ApplySeries

SpecSeries == InitSeries /\ [][NextSeries]_vars

\* A pair of series k that is not [elapsed, value], or for position not
\* [elapsed, {elevation, lat, lng}]: fewer or more than two elements, or an
\* element of the wrong type.
MisShaped(k, pair) ==
    \/ Len(pair) # 2
    \/ pair[1].k # "num"
    \/ pair[2].k # (IF k = "position" THEN "obj" ELSE "num")

Recognized == {"distance", "position", "speed", "steps"}

\* C18 as stated: a mis-shaped pair in a recognized series (fewer or more
\* than two elements, or an element of the wrong type) makes fillMainData
\* return an error, so that the workout is never returned with samples
\* decoded from such a series.
C18_AsStated ==
    (/\ fout.done
     /\ \E k \in DOMAIN fin.ts \cap Recognized :
           \E i \in 1..Len(fin.ts[k]) : MisShaped(k, fin.ts[k][i]))
    => fout.err # "nil"

-----------------------------------------------------------------------------
(* getMonthWorkoutsForRange on its own: malformed entries *)

\* The entries of a dashboard response: a workout of the last month of year 0
\* or of the first day of year 1, well formed or not.
ListEntries ==
    {Corrupt(Entry(id, RemoteWorkout(i, 0, 0, <<>>, NoPage)), how) :
        id \in IDs, i \in RunTicks,
        how \in {"none", "date", "url_nonint", "url_short"}}

ListResponses == UNION {[1..n -> ListEntries] : n \in 0..2}

\* The buckets asked for and the dates of the range, <<year, month, beginDate, endDate>>.
ListCalls ==
    {<<0, 12, Date(0, 12, 1), Date(1, 1, 1)>>, <<1, 1, Date(0, 12, 1), Date(1, 1, 1)>>,
     <<0, 12, Date(0, 12, 2), Date(0, 12, 2)>>}

InitList ==
    /\ \E es \in ListResponses, c \in ListCalls :
          fin = [es |-> es, year |-> c[1], month |-> c[2], beginDate |-> c[3],
                 endDate |-> c[4]]
    /\ fout = [done |-> FALSE, r |-> [st |-> "ok", err |-> "nil", wks |-> <<>>]]
    /\ IdleClient /\ IdleDB

ApplyList ==
    /\ ~fout.done
    /\ fout' = [done |-> TRUE,
                r |-> getMonthWorkoutsForRange(fin.es, fin.year, fin.month,
                                               fin.beginDate, fin.endDate)]
    /\ UNCHANGED <<fin, clientVars, dbVars>>

NextList == ApplyList

SpecList == InitList /\ [][NextList]_vars

\* The detail-page path has no segment at the identifier's position, or one
\* that is no integer.
Malformed(url) ==
    LET parts == Split(url, "/")
    IN  Len(parts) < 3 \/ ~Atoi(parts[3]).ok

\* Entry rw has a date and passes the filters on it.
Kept(rw) ==
    /\ ParseDate(rw.Date).ok
    /\ keepEntry(ParseDate(rw.Date).t, fin.year, fin.month, fin.beginDate, fin.endDate)

\* C19 as stated: an entry with a malformed path, among those the listing
\* works on, makes the call return an error; the call ends in no other way
\* than by returning, and no workout carries an identifier other than the one
\* in its entry's path.
C19_AsStated ==
    fout.done =>
        /\ fout.r.st \in {"ok", "err"}
        /\ (\E i \in 1..Len(fin.es) : Kept(fin.es[i]) /\ Malformed(fin.es[i].ViewURL))
              => fout.r.st = "err"
        /\ \A j \in 1..Len(fout.r.wks) :
              \E i \in 1..Len(fin.es) :
                 fin.es[i].ViewURL = <<"/", "w", "o", "r", "k", "o", "u", "t", "/">>
                                        \o Itoa(fout.r.wks[j].ID)

-----------------------------------------------------------------------------
(* GetWorkouts on its own: the order of the result *)

\* Start instants of the workouts of SpecOrder: the last day of year 0 and
\* the first tick of year 1.
OrderTicks == (YearStart - TicksPerDay)..YearStart

\* Each workout carries the offset of the zone it was recorded in; none has
\* a series or an elevation table.
OrderRemotes ==
    {[id \in IDs |-> RemoteWorkout(at[id], zone[id], 0, NoSeries, Page(200, FALSE, "", <<>>))] :
        at \in [IDs -> OrderTicks], zone \in [IDs -> Offsets]}

\* begin and end: the last month of year 0 to the start of year 1, and the
\* last day of year 0 to the start of year 1.
OrderCalls ==
    {<<Time(YearStart - TicksPerDay * DaysPerMonth, 0), Time(YearStart, 0)>>,
     <<Time(YearStart - TicksPerDay, 0), Time(YearStart, 0)>>}

RECURSIVE ascending(_)
ascending(S) ==
    IF S = {} THEN <<>>
    ELSE LET m == CHOOSE x \in S : \A y \in S : x <= y
         IN  <<m>> \o ascending(S \ {m})

\* The dashboard of (year, month) as the loop over rawresp.WorkoutData.Workouts
\* sees it: the workouts of that month keyed by the calendar date of their
\* start; the keys come in the order iter names them (a key comes where the
\* first of its workouts stands in iter), the entries of one key in the order
\* of the response.
RECURSIVE rangeKeys(_, _, _, _)
rangeKeys(r, ids, iter, i) ==
    IF i > Len(iter) THEN <<>>
    ELSE LET key(id) == Entry(id, r[id]).Date
             id == iter[i]
             first == id \in ids /\ \A j \in 1..(i - 1) : iter[j] \in ids => key(iter[j]) # key(id)
             rws == ascending({x \in ids : key(x) = key(id)})
         IN  (IF first THEN [n \in 1..Len(rws) |-> Entry(rws[n], r[rws[n]])] ELSE <<>>)
                \o rangeKeys(r, ids, iter, i + 1)

Dashboard(r, year, month, iter) ==
    rangeKeys(r, {id \in IDs : Year(r[id].StartedAt) = year /\ Month(r[id].StartedAt) = month},
              iter, 1)

\* fillWorkout with both requests answered.
fillWorkout(r, w) ==
    LET ks == CHOOSE p \in Perms(DOMAIN r[w.ID].Timeseries) : TRUE
    IN  fillGainData(r[w.ID].Page,
                     fillMainData(Detail(200, TRUE, r[w.ID], r[w.ID].Timeseries), ks, w).wk).wk

\* The loop over the summaries of one bucket: fill, drop what is out of range.
RECURSIVE fillLoop(_, _, _, _, _)
fillLoop(r, mws, b, e, acc) ==
    IF mws = <<>> THEN acc
    ELSE LET w == fillWorkout(r, Head(mws))
         IN  fillLoop(r, Tail(mws), b, e, IF outOfRange(w, b, e) THEN acc ELSE Append(acc, w))

\* The loop over the buckets of months(begin, end).
RECURSIVE bucketLoop(_, _, _, _, _, _)
bucketLoop(r, bs, b, e, iter, acc) ==
    IF bs = <<>> THEN acc
    ELSE LET m == Head(bs)
             mws == getMonthWorkoutsForRange(Dashboard(r, Year(m), Month(m), iter),
                                             Year(m), Month(m), toDate(b), toDate(e)).wks
         IN  bucketLoop(r, Tail(bs), b, e, iter, fillLoop(r, mws, b, e, acc))

\* A successful GetWorkouts(ctx, b, e) against contents r when the maps of
\* the dashboards are ranged over as iter says.
GetWorkouts(r, b, e, iter) == sortWorkouts(bucketLoop(r, months(b, e), b, e, iter, <<>>))

InitOrder ==
    /\ \E r \in OrderRemotes, c \in OrderCalls, iter \in Perms(IDs) :
          fin = [r |-> r, begin |-> c[1], end |-> c[2], iter |-> iter]
    /\ fout = [done |-> FALSE, first |-> <<>>, second |-> <<>>]
    /\ IdleClient /\ IdleDB

\* Two calls with the same begin and end against the same contents: one
\* whose maps are ranged over as fin.iter says, one whose maps are ranged
\* over in the order of the identifiers.
ApplyOrder ==
    /\ ~fout.done
    /\ fout' = [done |-> TRUE,
                first |-> GetWorkouts(fin.r, fin.begin, fin.end, fin.iter),
                second |-> GetWorkouts(fin.r, fin.begin, fin.end, ascending(IDs))]
    /\ UNCHANGED <<fin, clientVars, dbVars>>

NextOrder == ApplyOrder

SpecOrder == InitOrder /\ [][NextOrder]_vars

\* C20 as stated: two successful calls with the same begin and end against
\* the same remote contents return the same sequence of workouts, whatever
\* the order in which the listing is ranged over, also when workouts start
\* at the same instant.
C20_AsStated == fout.done => fout.first = fout.second

-----------------------------------------------------------------------------
(* GetWorkouts: scheduling *)

Tasks == {"main", "gain"}

Running == {t \in Tasks : task[t].st = "running"}

\* The remote requests in flight: the listing request of the current bucket
\* and the requests of the tasks that have not returned.
InFlight == (IF pc = "list" THEN 1 ELSE 0) + Cardinality(Running)

\* C21: the buckets are requested in chronological order, one after the
\* other; while a listing request is out no summary of an earlier bucket is
\* left to enrich and no task runs; tasks run only inside the enrichment of
\* one workout; at most two remote requests are in flight at any moment.
C21_Sequential ==
    /\ [](/\ InFlight <= 2
          /\ \A i, j \in 1..Len(ms) : i < j => Before(ms[i], ms[j])
          /\ pc = "list" => (mi \in 1..Len(ms) /\ mwks = <<>> /\ Running = {})
          /\ Running # {} => pc = "fill")
    /\ [][(pc' = "list" /\ pc # "list") =>
             /\ mi' = IF pc = "idle" THEN 1 ELSE mi + 1
             /\ ms' = IF pc = "idle" THEN months(begin', end') ELSE ms
             /\ pc = "idle" \/ (pc = "range" /\ mwks = <<>>)]_vars

\* The second bucket's workout is being enriched, both its requests in
\* flight, after a workout of the first bucket had been enriched.
C21_Witness ==
    /\ pc = "fill"
    /\ mi = 2
    /\ Running = Tasks
    /\ Len(fetches) = 2

-----------------------------------------------------------------------------
(* GetWorkouts against a provider whose listings spill over *)

\* SpecSpill: every dashboard carries the workouts of the adjacent months.
InitSpill ==
    /\ remote \in Remotes
    /\ Idle /\ IdleDB
    /\ fin = [spill |-> TRUE]
    /\ fout = [done |-> FALSE]

SpecSpill == InitSpill /\ [][Next]_vars

\* The bucket provider workout id is listed under by its date.
BucketOf(id) == Date(Year(remote[id].StartedAt), Month(remote[id].StartedAt), 1)

\* C22: a listing entry whose date is not in the bucket's year and month is
\* discarded for that bucket: the summaries of a bucket are all of its month,
\* so that a workout the provider lists under two adjacent months is enriched
\* once and its identifier is at most once in the result.
C22_EnrichedOnce ==
    /\ \A i \in 1..Len(mwks) : BucketOf(mwks[i].ID) = ms[mi]
    /\ pc = "fill" => BucketOf(wk.ID) = ms[mi]
    /\ \A i, j \in 1..Len(fetches) : i # j => fetches[i] # fetches[j]
    /\ \A i, j \in 1..Len(ret.workouts) : i # j => ret.workouts[i].ID # ret.workouts[j].ID

\* A call over two buckets returned two workouts, one of each month, each
\* of which both buckets' listings carried.
C22_Witness ==
    /\ fin.spill
    /\ Succeeded
    /\ Len(ms) = 2
    /\ Len(fetches) = 2 /\ Len(ret.workouts) = 2
    /\ BucketOf(fetches[1]) = ms[1]
    /\ BucketOf(fetches[2]) = ms[2]

-----------------------------------------------------------------------------
(* GetWorkouts: the two filters *)

\* The date provider workout id is listed under, as the listing parses it.
DateOf(id) == ParseDate(Entry(id, remote[id]).Date).t

\* The entry of id passes the listing's filters in one of the call's buckets.
PassesListing(id) ==
    /\ \E i \in 1..Len(ms) : BucketOf(id) = ms[i]
    /\ ~Before(DateOf(id), toDate(begin))
    /\ ~After(DateOf(id), toDate(end))

-----------------------------------------------------------------------------
(* fillMainData on its own: series of several well-formed pairs *)

\* The longest series of SpecDecode.
MaxPairs == 3

\* The pairs of series k: an elapsed time and a measurement, or, for
\* position, an elapsed time and an object.
DecodePairs(k) ==
    IF k = "position"
    THEN {<<Num(us), Obj(el, 44, -75)>> : us \in SeriesMicros, el \in {7, 10}}
    ELSE {<<Num(us), Num(v)>> : us \in SeriesMicros, v \in {5, 9}}

\* A time_series map with one series of SeriesKeys, with or without a
\* second, unrecognized series beside it.
DecodeMaps ==
    UNION {{(k :> p), (k :> p) @@ ("heartrate" :> <<<<Num(1024000), Num(5)>>>>)} :
              <<k, p>> \in UNION {{k} \X UNION {[1..n -> DecodePairs(k)] : n \in 0..MaxPairs} :
                                     k \in SeriesKeys}}

InitDecode ==
    /\ \E ts \in DecodeMaps : \E ks \in Perms(DOMAIN ts) : fin = [ts |-> ts, ks |-> ks]
    /\ fout = [done |-> FALSE, err |-> "nil", wk |-> ZeroWorkout]
    /\ IdleClient /\ IdleDB

ApplyDecode ==
    /\ ~fout.done
    /\ LET rw == RemoteWorkout(YearStart, 0, 0, fin.ts, NoPage)
           res == fillMainData(Detail(200, TRUE, rw, fin.ts), fin.ks, fout.wk)
       IN  fout' = [done |-> TRUE, err |-> res.err, wk |-> res.wk]
    /\ UNCHANGED <<fin, clientVars, dbVars>>

NextDecode == ApplyDecode

SpecDecode == InitDecode /\ [][NextDecode]_vars

\* The sample of a pair of series k: its elapsed value, converted as every
\* elapsed value is, and its measurement.
SampleOf(k, pair) ==
    IF k = "position"
    THEN [Elapsed |-> elapsedOf(pair[1].v), Elevation |-> pair[2].elevation,
          Lat |-> pair[2].lat, Lng |-> pair[2].lng]
    ELSE [Elapsed |-> elapsedOf(pair[1].v), Value |-> pair[2].v]

\* The samples a series of name k is to give: one for each pair, in the
\* payload's order; none when the map has no series of that name.
SamplesOf(k) ==
    IF k \in DOMAIN fin.ts THEN [i \in 1..Len(fin.ts[k]) |-> SampleOf(k, fin.ts[k][i])]
    ELSE <<>>

\* C24: for each of distance, position, speed and steps the decoded samples
\* are as many as the payload's pairs (of two elements of the right types)
\* and in their order, the i-th sample carrying the i-th pair's elapsed
\* value and measurement, whatever the order or repetition of the elapsed
\* values; a series of another name adds no sample and causes no error.
C24_Decoded ==
    fout.done =>
        /\ fout.err = "nil"
        /\ fout.wk.Distances = SamplesOf("distance")
        /\ fout.wk.Positions = SamplesOf("position")
        /\ fout.wk.Speeds = SamplesOf("speed")
        /\ fout.wk.Steps = SamplesOf("steps")

\* A series of three pairs was decoded whose elapsed values go down and
\* then repeat, beside a series of an unrecognized name.
C24_Witness ==
    /\ fout.done
    /\ "heartrate" \in DOMAIN fin.ts
    /\ \E k \in Recognized \cap DOMAIN fin.ts :
          /\ Len(fin.ts[k]) = 3
          /\ fin.ts[k][1][1].v > fin.ts[k][2][1].v
          /\ fin.ts[k][2][1].v = fin.ts[k][3][1].v
          /\ fin.ts[k][2] # fin.ts[k][3]
    /\ Len(fout.wk.Distances) + Len(fout.wk.Positions) + Len(fout.wk.Speeds)
          + Len(fout.wk.Steps) = 3

-----------------------------------------------------------------------------
(* fillMainData on its own: the elapsed time of a sample *)

\* The longest elapsed time of SpecElapsed, in milliseconds.
MaxElapsedMillis == 1030

\* Elapsed times in microseconds: the whole milliseconds up to the longest,
\* and the same with half a millisecond more.
ElapsedMicros ==
    {1000 * m : m \in 0..MaxElapsedMillis} \cup {1000 * m + 500 : m \in 0..MaxElapsedMillis}

InitElapsed ==
    /\ \E us \in ElapsedMicros, k \in Recognized : fin = [us |-> us, k |-> k]
    /\ fout = [done |-> FALSE, err |-> "nil", wk |-> ZeroWorkout]
    /\ IdleClient /\ IdleDB

\* fillMainData on a detail whose series fin.k has one pair, of elapsed
\* time fin.us.
ApplyElapsed ==
    /\ ~fout.done
    /\ LET pair == IF fin.k = "position" THEN <<Num(fin.us), Obj(10, 44, -75)>>
                   ELSE <<Num(fin.us), Num(5)>>
           ts == (fin.k :> <<pair>>)
           rw == RemoteWorkout(YearStart, 0, 0, ts, NoPage)
           res == fillMainData(Detail(200, TRUE, rw, ts), <<fin.k>>, fout.wk)
       IN  fout' = [done |-> TRUE, err |-> res.err, wk |-> res.wk]
    /\ UNCHANGED <<fin, clientVars, dbVars>>

NextElapsed == ApplyElapsed

SpecElapsed == InitElapsed /\ [][NextElapsed]_vars

\* The samples decoded, of whichever series.
Decoded == fout.wk.Distances \o fout.wk.Positions \o fout.wk.Speeds \o fout.wk.Steps

\* C25 as stated: the decoded elapsed time is the elapsed seconds times
\* 1000 with the fraction dropped, in whole milliseconds; an elapsed time of
\* a whole number of milliseconds decodes to exactly that number.
C25_AsStated ==
    fout.done =>
        /\ Len(Decoded) = 1
        /\ Decoded[1].Elapsed = fin.us \div 1000

-----------------------------------------------------------------------------
(* fillWorkout: fork and join *)

\* SpecFork: the runs of SpecFill in which a request that is out is
\* answered, fails or sees the cancellation at some time, and g.Wait returns
\* once both goroutines have.
SpecFork ==
    /\ InitFill
    /\ [][Next]_vars
    /\ WF_vars(MainReturns)
    /\ WF_vars(GainReturns)
    /\ WF_vars(Join)

Terminated(t) == task[t].st \in {"ok", "err"}

\* C26: fillWorkout starts its two tasks together, one main fetch and one
\* gain fetch, and each returns once; it returns only when both have
\* returned, and without an error only when neither returned one; and when
\* every request returns or sees the cancellation, fillWorkout returns.
C26_ForkJoin ==
    /\ [][/\ (pc # "fill" /\ pc' = "fill") => \A t \in Tasks : task'[t].st = "running"
          /\ (pc = "fill" /\ pc' = "fill") =>
                \A t \in Tasks : Terminated(t) => task'[t] = task[t]
          /\ (pc = "fill" /\ pc' # "fill") =>
                /\ \A t \in Tasks : Terminated(t)
                /\ task' = task
                /\ pc' \in {"range", "done"}
                /\ pc' = "range" => \A t \in Tasks : task[t].st = "ok"
                /\ pc' = "done" => (ret'.returned /\ ret'.err # "nil")]_vars
    /\ (pc = "fill" ~> pc # "fill")

\* fillWorkout returned the gain fetch's error after the main fetch, which
\* had not ended when the gain fetch failed, went on and succeeded.
C26_Witness ==
    /\ pc = "done"
    /\ task["gain"].st = "err"
    /\ task["main"].st = "ok"
    /\ cancelled
    /\ wk.StartedAt # NoTime
    /\ wk.Gain = 0
    /\ ret.returned /\ ret.err = task["gain"].err

-----------------------------------------------------------------------------
(* fillWorkout: what the two tasks write *)

\* The fields a task writes.
Writes(t) ==
    IF t = "gain" THEN {"Gain"}
    ELSE {"CreatedAt", "StartedAt", "UpdatedAt", "Distances", "Positions", "Speeds", "Steps"}

\* The summary of provider workout id, as the listing builds it.
Summary(id) == Workout(id, Entry(id, remote[id]))

\* C27: the main fetch writes only the three instants and the four sample
\* sequences, the gain fetch only the gain, and what either writes does not
\* depend on what the other has written: when both have succeeded the
\* workout is the summary with the detail and the gain, one and the same for
\* every order in which the two returned, and the listing's fields are as
\* the listing gave them.
C27_Disjoint ==
    /\ []((pc = "fill" /\ \A t \in Tasks : task[t].st = "ok")
             => wk = fillWorkout(remote, Summary(wk.ID)))
    /\ [][(pc = "fill" /\ pc' = "fill") =>
             \A t \in Tasks :
                 task'[t] = task[t] =>
                     \A f \in Writes(t) : f \in DOMAIN wk => wk'[f] = wk[f]]_vars
    /\ [][(pc = "fill" /\ pc' = "fill") =>
             \A f \in DOMAIN wk \ (Writes("main") \cup Writes("gain")) : wk'[f] = wk[f]]_vars

\* Both tasks have succeeded on a workout that has a gain and a series.
C27_Witness ==
    /\ pc = "fill"
    /\ \A t \in Tasks : task[t].st = "ok"
    /\ wk.Gain # 0
    /\ wk.Distances # <<>>
    /\ wk.StartedAt # NoTime
    /\ wk.Name # ""

-----------------------------------------------------------------------------
(* The sync command: the fetch comes first *)

\* C28: a run touches the store only after GetWorkouts has returned its
\* workouts for the whole range: starting a run and fetching change no row,
\* rows change only in a run whose fetch returned no error, and a run whose
\* fetch failed has ended there, the store being as it was when the run
\* began.
C28_FetchFirst ==
    /\ [](run.err # "nil" => (run.pc = "fatal" /\ run.fetched = <<>> /\ db = run.db0))
    /\ [][run'.n # run.n => (db' = db /\ run'.db0 = db)]_vars
    /\ [][db' # db => (run.pc = "sync" /\ run.err = "nil" /\ run'.n = run.n)]_vars

\* The fetch of a second run failed, and the rows the first run had stored
\* are as it left them.
C28_Witness ==
    /\ run.n = 2
    /\ run.err = "fetch"
    /\ run.pc = "fatal"
    /\ db.workouts # {}
    /\ db = run.db0

-----------------------------------------------------------------------------
(* sync: the rows of the other identifiers *)

InitUpsert ==
    /\ db = EmptyDB
    /\ dbRet = [op |-> "none", err |-> "nil", id |-> 0, stage |-> "none"]
    /\ dbCall = NoCall
    /\ run = NoRun
    /\ fin = [op |-> "none", d |-> EmptyDB, userName |-> "", w |-> ZeroWorkout]
    /\ fout = [done |-> FALSE, err |-> "nil"]
    /\ IdleClient

\* A call of sync that runs to the end or fails at its last statement; fin
\* keeps the store and the arguments it was called with.
Upsert ==
    /\ \E userName \in Users, w \in StoreVersions :
       \E failAt \in {0, Len(statements(userName, w)) + 1} :
          LET r == sync(db, userName, w, failAt)
          IN  /\ db' = r.db
              /\ fin' = [op |-> "sync", d |-> db, userName |-> userName, w |-> w]
              /\ fout' = [done |-> TRUE, err |-> r.err]
    /\ UNCHANGED <<clientVars, dbRet, dbCall, run>>

\* A call of removeExtra that succeeds.
UpsertRemoveExtra ==
    /\ \E userName \in Users, range \in StoreRanges, ws \in Fetches :
          /\ db' = removeExtra(db, userName, range[1], range[2], ws, "none").db
          /\ fin' = [op |-> "removeExtra", d |-> db, userName |-> userName, w |-> ZeroWorkout]
          /\ fout' = [done |-> TRUE, err |-> "nil"]
    /\ UNCHANGED <<clientVars, dbRet, dbCall, run>>

NextUpsert == Upsert \/ UpsertRemoveExtra

SpecUpsert == InitUpsert /\ [][NextUpsert]_vars

\* C29: sync(u, w) leaves every parent row and every child row of another
\* identifier as it was; no stored state has two parent rows of one
\* identifier, whoever the users; and after a sync that succeeded the one
\* parent row of w.ID is u's, also when the identifier was stored under
\* another user.
C29_OwnRows ==
    /\ \A id \in StoreIDs : Cardinality({r \in db.workouts : r.id = id}) <= 1
    /\ fin.op = "sync" =>
          /\ \A id \in StoreIDs : id # fin.w.ID => rowsWith(db, id) = rowsWith(fin.d, id)
          /\ fout.err = "nil" =>
                rowsWith(db, fin.w.ID).parent = {parentRow(fin.userName, fin.w)}

\* A sync for one user replaced the rows of an identifier stored under the
\* other user, beside a workout of another identifier that has samples.
C29_Witness ==
    /\ fin.op = "sync"
    /\ fout.err = "nil"
    /\ \E r \in fin.d.workouts : r.id = fin.w.ID /\ r.user_name # fin.userName
    /\ \E id \in StoreIDs :
          /\ id # fin.w.ID
          /\ rowsWith(db, id).parent # {}
          /\ rowsWith(db, id).child[1] # <<>>

-----------------------------------------------------------------------------
(* The sync command over a range whose begin is after its end *)

\* begin is a parsed day, or the latest stored start less fourteen days, in
\* the offset it was stored with; end is a parsed day or time.Now().
InvertedRanges ==
    {<<Time(i, o), Time(j, p)>> : i \in OrderTicks, j \in OrderTicks, o \in Offsets, p \in Offsets}
       \ {<<b, e>> \in {Time(i, o) : i \in OrderTicks, o \in Offsets}
                         \X {Time(i, o) : i \in OrderTicks, o \in Offsets} : b.inst <= e.inst}

\* The provider's workouts all start at one tick, in the caller's zone.
InvertedRemotes ==
    {[id \in IDs |-> RemoteWorkout(i, 0, 0, NoSeries, Page(200, FALSE, "", <<>>))] :
        i \in OrderTicks}

\* The stores earlier runs have left: none, one or two workouts of ann.
InvertedStores ==
    LET w(id, t) == StoreWorkout(id, t, 0)
        at == StoreTimes \cup {Time(YearStart, 0)}
        one == {sync(EmptyDB, "ann", w(1, t), 0).db : t \in at}
        two == {sync(d, "ann", w(2, t), 0).db : d \in one, t \in at}
    IN  {EmptyDB} \cup one \cup two

InitInverted ==
    /\ \E range \in InvertedRanges, r \in InvertedRemotes, d \in InvertedStores :
          fin = [begin |-> range[1], end |-> range[2], r |-> r, d |-> d]
    /\ fout = [done |-> FALSE, ms |-> <<>>, workouts |-> <<>>, db |-> EmptyDB]
    /\ IdleClient /\ IdleDB

\* The run of the command for ann over [fin.begin, fin.end] with every
\* request and every statement succeeding: the buckets GetWorkouts lists
\* (one listing request each), the workouts it returns, and the store after
\* the syncs (of which there are none when nothing is returned) and
\* removeExtra.
ApplyInverted ==
    /\ ~fout.done
    /\ LET ws == GetWorkouts(fin.r, fin.begin, fin.end, ascending(IDs))
       IN  fout' = [done |-> TRUE,
                    ms |-> months(fin.begin, fin.end),
                    workouts |-> ws,
                    db |-> removeExtra(fin.d, "ann", fin.begin, fin.end, ws, "none").db]
    /\ UNCHANGED <<fin, clientVars, dbVars>>

NextInverted == ApplyInverted

SpecInverted == InitInverted /\ [][NextInverted]_vars

\* C30 as stated: for begin after end, months(begin, end) is the one bucket
\* of begin's month, GetWorkouts lists that bucket only and returns no
\* workout, and the removeExtra that follows deletes no stored workout.
C30_AsStated ==
    (fout.done /\ After(fin.begin, fin.end)) =>
        /\ fout.ms = <<norm(fin.begin)>>
        /\ fout.workouts = <<>>
        /\ fout.db.workouts = fin.d.workouts

====
